---- MODULE Spec2Model ----
\* Path-validation cache chain (durable store -> volatile cache -> LLM validator)
\* of the learning-path backend, with the per-edge validation of the
\* topic-to-workflow conversion that shares the durable node_pair_validations
\* table, and the callers of the time estimator.
EXTENDS Integers, Sequences, FiniteSets, TLC

\* ------------------------------------------------------------------ bounds
MaxRequests == 2      \* POST /validate-path requests in one behaviour
MaxConvEdges == 1     \* edges validated by convert-to-workflow in one behaviour
MaxTicks == 1         \* clock advances in one behaviour
MaxTextLen == 3       \* tokens of a completion text given to the validator alone
MaxEstRequests == 2   \* estimate and implement requests in one behaviour
MaxNodes == 2         \* nodes given to the time estimator and to the schedule generator
MaxEvents == 10       \* events the memory of the process holds in one run of the schedule generator
MaxCalendarEvents == 3  \* events given to the calendar exporter alone
MaxNodeRequests == 2  \* POST /nodes requests in one behaviour
MaxWorkflowRequests == 2  \* POST /workflows and GET /workflows/mine requests in one behaviour
MaxQuizRequests == 2  \* POST /quiz/submit requests in one behaviour
MaxApiRequests == 2   \* requests of all endpoints together in one behaviour
MaxDetailEdges == 3   \* edges of the workflow GET /workflows/:id reads
MaxConversionEdges == 2  \* edges of one conversion of a topic
MaxStarRequests == 3  \* star and unstar requests in one behaviour
MaxConvertRequests == 2  \* convert-to-workflow requests in one behaviour

\* ------------------------------------------------------------- constants
\* const CACHE_TTL = 60 * 60 * 1000
CACHE_TTL == 60 * 60 * 1000

Undefined == "undefined"
Null == "null"
\* data: null of a select, and a local not assigned yet
NullData == [null |-> TRUE]

Range(f) == { f[i] : i \in DOMAIN f }

\* ---------------------------------------------------------------- titles
\* A title is a sequence of one-character strings.
Py == <<"P", "y">>
py == <<"p", "y">>
PyPad == <<" ", " ", "P", "y", " ">>
Sq == <<"S">>
Empty == <<>>

\* (from_node, to_node) bodies a client sends to POST /validate-path
RequestBodies ==
    { <<Py, Sq>>, <<py, Sq>>, <<PyPad, Sq>>, <<Sq, Py>>, <<Empty, Sq>>, <<Sq, Empty>> }

\* (source title, target title) of an edge produced by the conversion; the
\* titles are those of the created nodes, used as they are
EdgeTitles == { <<Py, Sq>>, <<Sq, Py>> }

RECURSIVE TrimStart(_)
TrimStart(s) ==
    IF s = <<>> THEN s
    ELSE IF Head(s) = " " THEN TrimStart(Tail(s)) ELSE s

RECURSIVE TrimEnd(_)
TrimEnd(s) ==
    IF s = <<>> THEN s
    ELSE IF s[Len(s)] = " " THEN TrimEnd(SubSeq(s, 1, Len(s) - 1)) ELSE s

\* String.prototype.trim
Trim(s) == TrimEnd(TrimStart(s))

LowerChar(c) ==
    CASE c = "P" -> "p"
      [] c = "S" -> "s"
      [] c = "Y" -> "y"
      [] OTHER -> c

\* String.prototype.toLowerCase
ToLowerCase(s) == [i \in DOMAIN s |-> LowerChar(s[i])]

\* a JavaScript string is falsy exactly when it is empty
Falsy(s) == s = <<>>

\* ------------------------------------------------------- volatile cache key
\* a plausible slip: a key that keeps the letter case
getCacheKeyCaseSensitive(fromNode, toNode) ==
    Trim(fromNode) \o <<":">> \o Trim(toNode)

getCacheKey(fromNode, toNode) ==
    Trim(ToLowerCase(fromNode)) \o <<":">> \o Trim(ToLowerCase(toNode))

\* ------------------------------------------------------------ LLM validator
\* What the completions endpoint can do with one request: fail, or answer with
\* a text, here a sequence of tokens: "{" and "}" are braces, "T" is the body
\* "isValid": true, "reason": ..., "F" is the body "isValid": false,
\* "reason": ..., "recommendation": ..., "x" is any other text.
LLMError == <<"error">>
LLMOutcomes ==
    { LLMError,
      <<"x">>,
      <<"{", "T", "}">>,
      <<"x", "{", "F", "}", "x">>,
      <<"{", "x", "}">> }

FirstIndex(s, c) ==
    IF \E i \in DOMAIN s : s[i] = c
    THEN CHOOSE i \in DOMAIN s : s[i] = c /\ \A j \in 1..(i - 1) : s[j] # c
    ELSE 0

LastIndex(s, c) ==
    IF \E i \in DOMAIN s : s[i] = c
    THEN CHOOSE i \in DOMAIN s : s[i] = c /\ \A j \in (i + 1)..Len(s) : s[j] # c
    ELSE 0

\* the null of a failed match (a match holds two braces at least)
NoMatch == <<>>

\* responseText.match(/\{[\s\S]*\}/): from the first "{" to the last "}" after it
JsonMatch(text) ==
    LET i == FirstIndex(text, "{")
        j == LastIndex(text, "}")
    IN IF i > 0 /\ j > i THEN SubSeq(text, i, j) ELSE NoMatch

\* JSON.parse throws unless the match is one object: "{}" or one body in braces
ParseThrows(m) ==
    ~(m = <<"{", "}">> \/ (Len(m) = 3 /\ m[1] = "{" /\ m[3] = "}" /\ m[2] \in {"T", "F"}))

\* the object {} : it has none of the fields
EmptyObject == [empty |-> TRUE]

\* JSON.parse of a match it accepts
JsonParse(m) ==
    IF Len(m) = 2 THEN EmptyObject
    ELSE IF m[2] = "T"
    THEN [isValid |-> TRUE, reason |-> "llm-valid", recommendation |-> Undefined]
    ELSE [isValid |-> FALSE, reason |-> "llm-invalid", recommendation |-> "llm-rec"]

NoJsonDefault ==
    [isValid |-> TRUE, reason |-> "Tidak dapat memvalidasi", recommendation |-> Undefined]

CatchDefault ==
    [isValid |-> TRUE, reason |-> "Gagal memvalidasi", recommendation |-> Undefined]

FallbackReasons == { NoJsonDefault.reason, CatchDefault.reason }

\* a plausible slip: JSON.parse outside the try block, its exception reaching
\* the caller
validateLearningPathParseUncaught(outcome) ==
    IF outcome = LLMError THEN [raised |-> FALSE, calls |-> 1, result |-> CatchDefault]
    ELSE LET m == JsonMatch(outcome)
         IN IF m = NoMatch THEN [raised |-> FALSE, calls |-> 1, result |-> NoJsonDefault]
            ELSE IF ParseThrows(m) THEN [raised |-> TRUE, calls |-> 1, result |-> NullData]
            ELSE [raised |-> FALSE, calls |-> 1, result |-> JsonParse(m)]

\* validateLearningPath, from the outcome of its single completions call to the
\* value it returns; "raised" would be an exception reaching the caller
validateLearningPath(outcome) ==
    IF outcome = LLMError THEN [raised |-> FALSE, calls |-> 1, result |-> CatchDefault]
    ELSE LET m == JsonMatch(outcome)
         IN IF m = NoMatch THEN [raised |-> FALSE, calls |-> 1, result |-> NoJsonDefault]
            ELSE IF ParseThrows(m) THEN [raised |-> FALSE, calls |-> 1, result |-> CatchDefault]
            ELSE [raised |-> FALSE, calls |-> 1, result |-> JsonParse(m)]

\* ------------------------------------------------------------------- state
VARIABLES
    now,              \* Date.now()
    ticks,            \* clock advances so far
    durable,          \* rows of node_pair_validations
    validationCache,  \* the in-memory Map: key -> [result, timestamp]
    pc,               \* position of each /validate-path request
    req,              \* locals of each /validate-path request
    conv,             \* per-edge validation tasks of convert-to-workflow
    lastApplied,      \* history: pair -> writer and verdict of the upsert applied last
    vpc,              \* validateLearningPath on its own: "call" or "returned"
    voutcome,         \* the outcome of its completions call
    vreturn,          \* what it returned
    epc,              \* position of the estimate or implement request being served
    ereq,             \* its locals
    served,           \* estimate and implement requests begun so far
    estimatorCalls,   \* history: the arguments of every estimateWorkflowTime call
    estimator,        \* estimateWorkflowTime on its own: its arguments, position and result
    schedule,         \* generateLearningSchedule: its arguments, locals and events
    calendar,         \* createCalendarEvents: its arguments and locals, and the remote calendar
    dup,              \* checkDuplicateNode on its own: its arguments, position and result
    learning_nodes,   \* rows of learning_nodes
    nreq,             \* locals and position of each POST /nodes request
    workflows,        \* rows of workflows
    workflow_edges,   \* rows of workflow_edges
    wreq,             \* locals and position of each workflow request
    user_profiles,    \* rows of user_profiles
    qreq,             \* locals and position of each POST /quiz/submit request
    workflow_stars,   \* rows of workflow_stars
    sreq,             \* locals and position of each star or unstar request
    dreq,             \* locals and position of the GET /workflows/:id request
    topics,           \* rows of topics
    creq              \* locals and position of each convert-to-workflow request

pathVars == <<now, ticks, durable, validationCache, pc, req, conv, lastApplied>>
validatorVars == <<vpc, voutcome, vreturn>>
estimateVars == <<epc, ereq, served, estimatorCalls>>
nodeVars == <<learning_nodes, nreq>>
workflowVars == <<workflows, workflow_edges, wreq>>
quizVars == <<user_profiles, qreq>>
starVars == <<workflow_stars, sreq>>
detailVars == <<dreq>>
convertVars == <<topics, creq>>
socialVars == <<starVars, detailVars, convertVars>>
apiVars == <<nodeVars, workflowVars, quizVars, socialVars>>
serviceVars == <<estimator, schedule, calendar, dup, apiVars>>
routeVars == <<pathVars, validatorVars, estimateVars>>
otherThanEstimator == <<routeVars, schedule, calendar, dup, apiVars>>
otherThanSchedule == <<routeVars, estimator, calendar, dup, apiVars>>
otherThanCalendar == <<routeVars, estimator, schedule, dup, apiVars>>
otherThanDuplicate == <<routeVars, estimator, schedule, calendar, apiVars>>
standaloneVars == <<estimator, schedule, calendar, dup>>
otherThanNodes == <<routeVars, standaloneVars, workflowVars, quizVars, socialVars>>
otherThanWorkflows == <<routeVars, standaloneVars, nodeVars, quizVars, socialVars>>
otherThanQuiz == <<routeVars, standaloneVars, nodeVars, workflowVars, socialVars>>
otherThanStars ==
    <<routeVars, standaloneVars, nodeVars, workflowVars, quizVars, detailVars, convertVars>>
otherThanConvert ==
    <<now, ticks, validationCache, pc, req, conv, lastApplied, validatorVars, estimateVars,
      standaloneVars, nreq, wreq, quizVars, starVars, detailVars>>
otherThanDetail ==
    <<routeVars, standaloneVars, nodeVars, workflowVars, quizVars, starVars, convertVars>>

vars == <<now, ticks, durable, validationCache, pc, req, conv, lastApplied,
          vpc, voutcome, vreturn, epc, ereq, served, estimatorCalls,
          estimator, schedule, calendar, dup, learning_nodes, nreq,
          workflows, workflow_edges, wreq, user_profiles, qreq,
          workflow_stars, sreq, dreq, topics, creq>>

Requests == 1..MaxRequests
ConvEdges == 1..MaxConvEdges

NoResponse == [status |-> 0]

InitReq ==
    [ from_node |-> Empty, to_node |-> Empty,
      sourceName |-> Empty, targetName |-> Empty,
      cachedValidation |-> NullData,    \* data of the durable select
      readOk |-> FALSE,              \* history: the durable select reached the store
      heldAtRead |-> {},             \* history: rows of the pair when the select ran
      writerAtRead |-> <<>>,         \* history: who had written them
      validation |-> NullData,         \* value returned by validateLearningPath
      dbError |-> FALSE,             \* error of the durable upsert
      response |-> NoResponse,
      log |-> <<>>,                  \* history: steps of this request, in order
      doneBefore |-> {} ]            \* history: requests completed when this one began

InitConv ==
    [ pc |-> "idle", source |-> Empty, target |-> Empty, validation |-> NullData ]

\* a finished task keeps no locals
DoneConv == [InitConv EXCEPT !.pc = "done"]

InitPath ==
    /\ now = 0
    /\ ticks = 0
    /\ durable = {}
    /\ validationCache = << >>
    /\ pc = [r \in Requests |-> "idle"]
    /\ req = [r \in Requests |-> InitReq]
    /\ conv = [c \in ConvEdges |-> InitConv]
    /\ lastApplied = << >>

InitEstimate ==
    /\ epc = "idle"
    /\ ereq = NullData
    /\ served = 0
    /\ estimatorCalls = << >>

\* a call of estimateWorkflowTime that has not returned yet
CallOfEstimator(nodes, outcome) ==
    [ pc |-> "call", nodes |-> nodes, outcome |-> outcome, result |-> NullData ]

\* a call of generateLearningSchedule at its first statement after the two
\* initialisations: for (const node of nodes) at its first node
CallOfSchedule(nodes, startDate, dailyHours) ==
    [ pc |-> "loop", nodes |-> nodes, startDate |-> startDate, dailyHours |-> dailyHours,
      node |-> 1,              \* index of the node the for loop is at
      hoursScheduled |-> 0,
      currentDate |-> startDate,
      events |-> << >> ]

\* createCalendarEvents before its call
CallOfCalendar(events) ==
    [ pc |-> "call", events |-> events,
      eventIds |-> << >>,
      inFlight |-> {},         \* insert calls sent and not answered
      issued |-> << >>,        \* history: the events insert was called for, in call order
      failed |-> 0,            \* history: the event whose insert failed
      remote |-> {} ]          \* events of the remote calendar

\* a call of checkDuplicateNode that has not returned yet
CallOfDuplicate(newTitle, existingNodes, outcome) ==
    [ pc |-> "call", newTitle |-> newTitle, existingNodes |-> existingNodes,
      outcome |-> outcome, result |-> NullData ]

NodeRequests == 1..MaxNodeRequests

InitNodeReq ==
    [ pc |-> "idle",
      topic_id |-> 0, title |-> Empty,
      existingNodes |-> << >>,         \* data of the select (empty when it is null)
      selectError |-> FALSE,           \* error of the select: its data is null
      duplicateCheck |-> NullData,     \* value returned by checkDuplicateNode
      response |-> NoResponse,
      inserted |-> 0,                  \* history: id of the row this request inserted
      log |-> << >> ]                  \* history: the calls of this request, in order

IdleEstimator == estimator = CallOfEstimator(<< >>, LLMError)
IdleSchedule == schedule = CallOfSchedule(<< >>, 0, 2)
IdleCalendar == calendar = CallOfCalendar(<< >>)
IdleDuplicate == dup = CallOfDuplicate(Empty, << >>, LLMError)

InitNodes ==
    /\ learning_nodes = {}
    /\ nreq = [n \in NodeRequests |-> InitNodeReq]

WorkflowRequests == 1..MaxWorkflowRequests

InitWorkflowReq ==
    [ pc |-> "idle",
      endpoint |-> "none",
      body |-> NullData,               \* req.body of POST /workflows
      userId |-> 0,                    \* the x-user-id header (0 when it is absent)
      workflow |-> NullData,           \* the row the insert returned
      response |-> NoResponse,
      log |-> << >> ]                  \* history: the calls of this request, in order

InitWorkflows ==
    /\ workflows = {}
    /\ workflow_edges = {}
    /\ wreq = [w \in WorkflowRequests |-> InitWorkflowReq]

QuizRequests == 1..MaxQuizRequests

InitQuizReq ==
    [ pc |-> "idle",
      body |-> NullData,               \* req.body
      quiz |-> NullData,               \* the row of material_page_quizzes
      isCorrect |-> FALSE,
      updatedScores |-> {},            \* the quiz_scores this request writes
      response |-> NoResponse,
      log |-> << >> ]                  \* history: the calls of this request, in order

\* one user has a profile, without scores yet
InitQuiz ==
    /\ user_profiles = { [user_id |-> 1, quiz_scores |-> {}] }
    /\ qreq = [q \in QuizRequests |-> InitQuizReq]

\* rows of topics; no route of the server creates one
TopicRows ==
    { [id |-> 1, title |-> Py, is_converted |-> FALSE, converted_workflow_id |-> 0] }

ConvertRequests == 1..MaxConvertRequests

InitConvertReq ==
    [ pc |-> "idle",
      topicId |-> 0,                   \* req.params.topicId
      userId |-> 0,                    \* the x-user-id header or body.user_id (0 when absent)
      topic |-> NullData,              \* the row of topics
      convertedAtRead |-> FALSE,       \* history: the topic was read as converted, its workflow stored
      existingRead |-> FALSE,          \* history: the select of that workflow reached the store
      conversionResult |-> NullData,   \* value returned by extractNodesFromTopic
      createdNodes |-> << >>,          \* rows the insert of the nodes returned
      workflow |-> NullData,           \* row the insert of the workflow returned
      tasks |-> << >>,                 \* position and validation of the callback of each edge
      response |-> NoResponse,
      created |-> {},                  \* history: the tables this request wrote rows to
      log |-> << >> ]                  \* history: the calls of this request, in order

InitConvert ==
    /\ topics = TopicRows
    /\ creq = [c \in ConvertRequests |-> InitConvertReq]

StarRequests == 1..MaxStarRequests

InitStarReq ==
    [ pc |-> "idle",
      endpoint |-> "none",
      id |-> 0,                        \* req.params.id
      userId |-> [uuid |-> 0],         \* the x-user-id header or body.user_id
      ownerRead |-> FALSE,             \* history: the select of the owner reached the store
      heldAtInsert |-> FALSE,          \* history: the insert found a star of the pair
      inserted |-> FALSE,              \* history: this request inserted a star
      response |-> NoResponse,
      log |-> << >> ]                  \* history: the calls of this request, in order

InitStars ==
    /\ workflow_stars = {}
    /\ sreq = [s \in StarRequests |-> InitStarReq]

InitDetailReq ==
    [ pc |-> "idle",
      id |-> 0,                        \* req.params.id
      userId |-> 0,                    \* the x-user-id header (0 when it is absent)
      workflow |-> NullData,           \* the row of workflows
      edges |-> << >>,                 \* edges || []
      edgesRead |-> FALSE,             \* history: the select of the edges reached the store
      awaited |-> {},                  \* indexes of the edges whose lookup has not returned
      lookedUp |-> {},                 \* history: indexes whose lookup reached the store
      enrichedEdges |-> << >>,
      hasStarred |-> FALSE,
      response |-> NoResponse ]

InitDetail == dreq = InitDetailReq

InitApi ==
    /\ InitNodes
    /\ InitWorkflows
    /\ InitQuiz
    /\ InitStars
    /\ InitDetail
    /\ InitConvert

InitService ==
    /\ IdleEstimator
    /\ IdleSchedule
    /\ IdleCalendar
    /\ IdleDuplicate
    /\ InitApi

Init ==
    /\ InitPath
    /\ vpc = "call" /\ voutcome = LLMError /\ vreturn = NullData
    /\ InitEstimate
    /\ InitService

\* ------------------------------------------------------------ durable store
PairRows(rows, source, target) ==
    { row \in rows : row.source_name = source /\ row.target_name = target }

\* a plausible slip: a case-insensitive filter (ilike) instead of eq
EqFilterIgnoreCase(rows, source, target) ==
    { row \in rows : /\ ToLowerCase(row.source_name) = ToLowerCase(source)
                     /\ ToLowerCase(row.target_name) = ToLowerCase(target) }

\* .eq('source_name', s).eq('target_name', t)
EqFilter(rows, source, target) ==
    { row \in rows : row.source_name = source /\ row.target_name = target }

\* .select(...).eq(...).eq(...).single(): the row when exactly one matches, null
\* otherwise (and null when the store is unreachable)
SelectSingle(rows, source, target, ok) ==
    LET m == EqFilter(rows, source, target)
    IN IF ok /\ Cardinality(m) = 1 THEN CHOOSE row \in m : TRUE ELSE NullData

ValidationRow(source, target, v) ==
    [ source_name |-> source, target_name |-> target,
      is_valid |-> v.isValid, validation_reason |-> v.reason,
      recommendation |-> IF v.recommendation = Undefined THEN Null ELSE v.recommendation ]

\* plausible slips: upsert with ignoreDuplicates (the stored row wins), and a
\* plain insert into a table without the unique pair
UpsertIgnoreDuplicates(rows, row) ==
    IF PairRows(rows, row.source_name, row.target_name) # {} THEN rows
    ELSE rows \cup {row}

InsertRow(rows, row) == rows \cup {row}

\* .upsert(row, { onConflict: 'source_name,target_name' }): the row replaces
\* the stored row of its pair, or is inserted when there is none
Upsert(rows, row) ==
    (rows \ PairRows(rows, row.source_name, row.target_name)) \cup {row}

\* ----------------------------------------------------------- volatile cache
\* a plausible slip: >= for >
ExpiredAtTtl(entry, t) == t - entry.timestamp >= CACHE_TTL

\* Date.now() - cached.timestamp > CACHE_TTL
Expired(entry, t) == t - entry.timestamp > CACHE_TTL

\* getFromCache: the value returned (NullData for null) ...
getFromCache(cache, fromNode, toNode, t) ==
    LET key == getCacheKey(fromNode, toNode)
    IN IF key \notin DOMAIN cache THEN NullData
       ELSE IF Expired(cache[key], t) THEN NullData
       ELSE cache[key].result

\* a plausible slip: a sweep of every expired entry on each read
CacheAfterGetSweep(cache, fromNode, toNode, t) ==
    [k \in { k \in DOMAIN cache : ~Expired(cache[k], t) } |-> cache[k]]

\* ... and the Map it leaves behind
CacheAfterGet(cache, fromNode, toNode, t) ==
    LET key == getCacheKey(fromNode, toNode)
    IN IF key \in DOMAIN cache /\ Expired(cache[key], t)
       THEN [k \in DOMAIN cache \ {key} |-> cache[k]]
       ELSE cache

saveToCache(cache, fromNode, toNode, result, t) ==
    LET key == getCacheKey(fromNode, toNode)
    IN [k \in DOMAIN cache \cup {key} |->
          IF k = key THEN [result |-> result, timestamp |-> t] ELSE cache[k]]

\* ------------------------------------------------- POST /validate-path steps
Done(r) == pc[r] = "done"

\* requests are numbered in the order they arrive
StartRequest(r, body) ==
    /\ pc[r] = "idle"
    /\ \A q \in 1..(r - 1) : pc[q] # "idle"
    /\ LET base == [req[r] EXCEPT !.from_node = body[1], !.to_node = body[2],
                                  !.doneBefore = { q \in Requests : Done(q) }]
       IN IF Falsy(body[1]) \/ Falsy(body[2])
          THEN /\ req' = [req EXCEPT ![r] =
                     [base EXCEPT !.response = [status |-> 400, success |-> FALSE],
                                  !.log = <<"respond">>]]
               /\ pc' = [pc EXCEPT ![r] = "done"]
          ELSE /\ req' = [req EXCEPT ![r] =
                     [base EXCEPT !.sourceName = Trim(body[1]),
                                  !.targetName = Trim(body[2])]]
               /\ pc' = [pc EXCEPT ![r] = "dbRead"]
    /\ UNCHANGED <<now, ticks, durable, validationCache, conv, lastApplied,
                 validatorVars, estimateVars, serviceVars>>

\* the store runs the select of step 1
DurableRead(r, ok) ==
    /\ pc[r] = "dbRead"
    /\ req' = [req EXCEPT ![r] =
          [@ EXCEPT !.cachedValidation =
                        SelectSingle(durable, req[r].sourceName, req[r].targetName, ok),
                    !.readOk = ok,
                    !.heldAtRead =
                        { row \in durable : /\ row.source_name = req[r].sourceName
                                            /\ row.target_name = req[r].targetName },
                    !.writerAtRead =
                        LET pair == <<req[r].sourceName, req[r].targetName>>
                        IN IF pair \in DOMAIN lastApplied THEN lastApplied[pair].by ELSE <<>>,
                    !.log = Append(@, "dbRead")]]
    /\ pc' = [pc EXCEPT ![r] = "afterRead"]
    /\ UNCHANGED <<now, ticks, durable, validationCache, conv, lastApplied,
                 validatorVars, estimateVars, serviceVars>>

\* the answer of the earlier, id-keyed variant of the route: isValid: true
DatabaseResponseAlwaysValid(row) ==
    [ status |-> 200, success |-> TRUE, isValid |-> TRUE,
      reason |-> row.validation_reason, recommendation |-> row.recommendation,
      fromDatabase |-> TRUE ]

DatabaseResponse(row) ==
    [ status |-> 200, success |-> TRUE, isValid |-> row.is_valid,
      reason |-> row.validation_reason, recommendation |-> row.recommendation,
      fromDatabase |-> TRUE ]

\* { ...object, field: value }
WithField(object, field, value) ==
    [k \in DOMAIN object \cup {field} |-> IF k = field THEN value ELSE object[k]]

CacheResponse(cached) == WithField(cached, "fromCache", TRUE)

FreshResponse(v) ==
    [ status |-> 200, success |-> TRUE, isValid |-> v.isValid,
      reason |-> v.reason, recommendation |-> v.recommendation,
      saved |-> TRUE ]

\* a plausible slip: the in-memory cache consulted before the select's data
AfterReadVolatileFirst(r) ==
    /\ pc[r] = "afterRead"
    /\ LET cachedResult ==
            getFromCache(validationCache, req[r].sourceName, req[r].targetName, now)
       IN /\ validationCache' =
               CacheAfterGet(validationCache, req[r].sourceName, req[r].targetName, now)
          /\ IF cachedResult # NullData
             THEN /\ req' = [req EXCEPT ![r] =
                        [@ EXCEPT !.response = CacheResponse(cachedResult),
                                  !.log = @ \o <<"cacheRead", "respond">>]]
                  /\ pc' = [pc EXCEPT ![r] = "done"]
             ELSE IF req[r].cachedValidation # NullData
             THEN /\ req' = [req EXCEPT ![r] =
                        [@ EXCEPT !.response = DatabaseResponse(req[r].cachedValidation),
                                  !.log = @ \o <<"cacheRead", "respond">>]]
                  /\ pc' = [pc EXCEPT ![r] = "done"]
             ELSE /\ req' = [req EXCEPT ![r] =
                        [@ EXCEPT !.log = @ \o <<"cacheRead", "llmCall">>]]
                  /\ pc' = [pc EXCEPT ![r] = "llm"]
    /\ UNCHANGED <<now, ticks, durable, conv, lastApplied,
                 validatorVars, estimateVars, serviceVars>>

\* the handler resumes with the select's data: steps 1 (answer), 2 and the
\* call of step 3
AfterRead(r) ==
    /\ pc[r] = "afterRead"
    /\ IF req[r].cachedValidation # NullData
       THEN /\ req' = [req EXCEPT ![r] =
                  [@ EXCEPT !.response = DatabaseResponse(req[r].cachedValidation),
                            !.log = Append(@, "respond")]]
            /\ pc' = [pc EXCEPT ![r] = "done"]
            /\ UNCHANGED validationCache
       ELSE LET cachedResult ==
                    getFromCache(validationCache, req[r].sourceName, req[r].targetName, now)
            IN /\ validationCache' =
                    CacheAfterGet(validationCache, req[r].sourceName, req[r].targetName, now)
               /\ IF cachedResult # NullData
                  THEN /\ req' = [req EXCEPT ![r] =
                             [@ EXCEPT !.response = CacheResponse(cachedResult),
                                       !.log = @ \o <<"cacheRead", "respond">>]]
                       /\ pc' = [pc EXCEPT ![r] = "done"]
                  ELSE /\ req' = [req EXCEPT ![r] =
                             [@ EXCEPT !.log = @ \o <<"cacheRead", "llmCall">>]]
                       /\ pc' = [pc EXCEPT ![r] = "llm"]
    /\ UNCHANGED <<now, ticks, durable, conv, lastApplied,
                 validatorVars, estimateVars, serviceVars>>

\* a plausible slip: the upsert not awaited, the handler going straight on
LLMReturnNoAwait(r, outcome) ==
    /\ pc[r] = "llm"
    /\ req' = [req EXCEPT ![r] =
          [@ EXCEPT !.validation = validateLearningPath(outcome).result]]
    /\ pc' = [pc EXCEPT ![r] = "afterUpsert"]
    /\ UNCHANGED <<now, ticks, durable, validationCache, conv, lastApplied,
                 validatorVars, estimateVars, serviceVars>>

\* the completions call ends; validateLearningPath returns and the handler
\* issues the upsert of step 4
LLMReturn(r, outcome) ==
    /\ pc[r] = "llm"
    /\ LET v == validateLearningPath(outcome)
       IN IF v.raised
          THEN /\ req' = [req EXCEPT ![r] =
                     [@ EXCEPT !.response = [status |-> 500, success |-> FALSE],
                               !.log = Append(@, "respond")]]
               /\ pc' = [pc EXCEPT ![r] = "done"]
          ELSE /\ req' = [req EXCEPT ![r] = [@ EXCEPT !.validation = v.result]]
               /\ pc' = [pc EXCEPT ![r] = "upsert"]
    /\ UNCHANGED <<now, ticks, durable, validationCache, conv, lastApplied,
                 validatorVars, estimateVars, serviceVars>>

SetLast(f, source, target, v) ==
    [k \in DOMAIN f \cup {<<source, target>>} |->
        IF k = <<source, target>> THEN v ELSE f[k]]

\* the store runs the upsert of step 4, or fails it
DurableUpsert(r, ok) ==
    /\ pc[r] = "upsert"
    /\ IF ok
       THEN /\ durable' = Upsert(durable,
                   ValidationRow(req[r].sourceName, req[r].targetName, req[r].validation))
            /\ lastApplied' = SetLast(lastApplied, req[r].sourceName, req[r].targetName,
                                      [by |-> <<"request", r>>,
                                       isValid |-> req[r].validation.isValid])
       ELSE UNCHANGED <<durable, lastApplied>>
    /\ req' = [req EXCEPT ![r] = [@ EXCEPT !.dbError = ~ok, !.log = Append(@, "upsert")]]
    /\ pc' = [pc EXCEPT ![r] = "afterUpsert"]
    /\ UNCHANGED <<now, ticks, validationCache, conv,
                 validatorVars, estimateVars, serviceVars>>

\* a plausible slip: the upsert's error answered with a failure
AfterUpsertFailOnError(r) ==
    /\ pc[r] = "afterUpsert"
    /\ LET response == FreshResponse(req[r].validation)
       IN IF req[r].dbError
          THEN /\ req' = [req EXCEPT ![r] =
                     [@ EXCEPT !.response = [status |-> 500, success |-> FALSE],
                               !.log = Append(@, "respond")]]
               /\ UNCHANGED validationCache
          ELSE /\ validationCache' = saveToCache(validationCache, req[r].sourceName,
                                                 req[r].targetName, response, now)
               /\ req' = [req EXCEPT ![r] =
                     [@ EXCEPT !.response = response,
                               !.log = @ \o <<"cacheWrite", "respond">>]]
    /\ pc' = [pc EXCEPT ![r] = "done"]
    /\ UNCHANGED <<now, ticks, durable, conv, lastApplied,
                 validatorVars, estimateVars, serviceVars>>

\* the handler resumes with the upsert's error: log, step 5, step 6
AfterUpsert(r) ==
    /\ pc[r] = "afterUpsert"
    /\ LET response == FreshResponse(req[r].validation)
       IN /\ validationCache' = saveToCache(validationCache, req[r].sourceName,
                                            req[r].targetName, response, now)
          /\ req' = [req EXCEPT ![r] =
                [@ EXCEPT !.response = response,
                          !.log = @ \o <<"cacheWrite", "respond">>]]
    /\ pc' = [pc EXCEPT ![r] = "done"]
    /\ UNCHANGED <<now, ticks, durable, conv, lastApplied,
                 validatorVars, estimateVars, serviceVars>>

\* --------------------------------- convert-to-workflow: validation of one edge
ConvStart(c, titles) ==
    /\ conv[c].pc = "idle"
    /\ \A d \in 1..(c - 1) : conv[d].pc # "idle"
    /\ conv' = [conv EXCEPT ![c] =
          [@ EXCEPT !.pc = "read", !.source = titles[1], !.target = titles[2]]]
    /\ UNCHANGED <<now, ticks, durable, validationCache, pc, req, lastApplied,
                 validatorVars, estimateVars, serviceVars>>

\* the store runs the select; on data the edge is done, on null the task calls
\* validateLearningPath
ConvRead(c, ok) ==
    /\ conv[c].pc = "read"
    /\ LET cachedValidation == SelectSingle(durable, conv[c].source, conv[c].target, ok)
       IN conv' = [conv EXCEPT ![c] =
              IF cachedValidation # NullData THEN DoneConv ELSE [@ EXCEPT !.pc = "llm"]]
    /\ UNCHANGED <<now, ticks, durable, validationCache, pc, req, lastApplied,
                 validatorVars, estimateVars, serviceVars>>

ConvLLMReturn(c, outcome) ==
    /\ conv[c].pc = "llm"
    /\ LET v == validateLearningPath(outcome)
       IN conv' = [conv EXCEPT ![c] =
              IF v.raised THEN DoneConv
              ELSE [@ EXCEPT !.pc = "upsert", !.validation = v.result]]
    /\ UNCHANGED <<now, ticks, durable, validationCache, pc, req, lastApplied,
                 validatorVars, estimateVars, serviceVars>>

\* the store runs the task's upsert, or fails it (the task ignores the error)
ConvUpsert(c, ok) ==
    /\ conv[c].pc = "upsert"
    /\ IF ok
       THEN /\ durable' = Upsert(durable,
                   ValidationRow(conv[c].source, conv[c].target, conv[c].validation))
            /\ lastApplied' = SetLast(lastApplied, conv[c].source, conv[c].target,
                                      [by |-> <<"conversion", c>>,
                                       isValid |-> conv[c].validation.isValid])
       ELSE UNCHANGED <<durable, lastApplied>>
    /\ conv' = [conv EXCEPT ![c] = DoneConv]
    /\ UNCHANGED <<now, ticks, validationCache, pc, req,
                 validatorVars, estimateVars, serviceVars>>

\* -------------------------------------------------------------------- clock
\* Date.now() is read only to stamp and to age cache entries: time passes
\* while there is an entry to age
Tick(d) ==
    /\ ticks < MaxTicks
    /\ DOMAIN validationCache # {}
    /\ ticks' = ticks + 1
    /\ now' = now + d
    /\ UNCHANGED <<durable, validationCache, pc, req, conv, lastApplied,
                 validatorVars, estimateVars, serviceVars>>

RequestStep ==
    \/ \E r \in Requests, body \in RequestBodies : StartRequest(r, body)
    \/ \E r \in Requests, ok \in BOOLEAN : DurableRead(r, ok)
    \/ \E r \in Requests : AfterRead(r)
    \/ \E r \in Requests, outcome \in LLMOutcomes : LLMReturn(r, outcome)
    \/ \E r \in Requests, ok \in BOOLEAN : DurableUpsert(r, ok)
    \/ \E r \in Requests : AfterUpsert(r)

ConvStep ==
    \/ \E c \in ConvEdges, titles \in EdgeTitles : ConvStart(c, titles)
    \/ \E c \in ConvEdges, ok \in BOOLEAN : ConvRead(c, ok)
    \/ \E c \in ConvEdges, outcome \in LLMOutcomes : ConvLLMReturn(c, outcome)
    \/ \E c \in ConvEdges, ok \in BOOLEAN : ConvUpsert(c, ok)

\* validation requests on one running instance, with its clock
Next ==
    \/ RequestStep
    \/ \E d \in {CACHE_TTL, CACHE_TTL + 1} : Tick(d)

Spec == Init /\ [][Next]_vars

\* validation requests and conversions sharing the durable store
NextStore ==
    \/ RequestStep
    \/ ConvStep

SpecStore == Init /\ [][NextStore]_vars

\* ------------------------------------------- validateLearningPath on its own
Tokens == {"{", "}", "T", "F", "x"}

\* the completions call fails, or answers with any text of up to MaxTextLen tokens
ValidatorOutcomes ==
    {LLMError} \cup UNION { [1..n -> Tokens] : n \in 0..MaxTextLen }

ValidatorReturns ==
    /\ vpc = "call"
    /\ vreturn' = validateLearningPath(voutcome)
    /\ vpc' = "returned"
    /\ UNCHANGED <<voutcome, pathVars, estimateVars, serviceVars>>

InitValidator ==
    /\ InitPath
    /\ vpc = "call" /\ voutcome \in ValidatorOutcomes /\ vreturn = NullData
    /\ InitEstimate
    /\ InitService

NextValidator == ValidatorReturns

SpecValidator == InitValidator /\ [][NextValidator]_vars

\* ------------------------------------------- callers of estimateWorkflowTime
\* rows of workflow_edges of the workflow asked for, in the order the select
\* returns them, each <<source node id, target node id>>
WorkflowEdgeLists ==
    { << >>, << <<1, 2>> >>, << <<1, 2>>, <<2, 3>> >>, << <<1, 2>>, <<1, 3>> >> }

\* { data, error } of that select
EdgeResults ==
    { [error |-> TRUE] } \cup { [error |-> FALSE, data |-> edges] : edges \in WorkflowEdgeLists }

\* req.body.nodes of POST /estimate-nodes
NodesBodies ==
    { [kind |-> "undefined"], [kind |-> "string"],
      [kind |-> "array", items |-> << >>],
      [kind |-> "array", items |-> <<1>>],
      [kind |-> "array", items |-> <<2, 1>>] }

\* the Authorization header: absent, or a scheme and a credential; "session"
\* is the access token of a live session, "stale" is not
AuthHeaders == { << >>, <<"Basic ", "x">>, <<"Bearer ", "stale">>, <<"Bearer ", "session">> }

\* req.body.access_token: absent, a string Google rejects, a Google access token
AccessTokens == { "", "bogus", "google-token" }

\* the credentials that belong to a signed-in user
ValidCredentials == { "session", "google-token" }

\* nodeMap.set(id, node): a new key goes last, a known key keeps its place
MapSet(keys, id) ==
    IF \E i \in DOMAIN keys : keys[i] = id THEN keys ELSE Append(keys, id)

\* edges?.forEach(...) then Array.from(nodeMap.values())
RECURSIVE UniqueNodes(_, _)
UniqueNodes(edges, keys) ==
    IF edges = << >> THEN keys
    ELSE UniqueNodes(Tail(edges), MapSet(MapSet(keys, Head(edges)[1]), Head(edges)[2]))

CanServe == epc \in {"idle", "done"} /\ served < MaxEstRequests

\* the locals of a request that begins; log is the history of its calls
Begin(endpoint, credential) ==
    [endpoint |-> endpoint, credential |-> credential, log |-> << >>]

Called(request, call) == [request EXCEPT !.log = Append(@, call)]

CallEstimator(request, nodes) ==
    /\ estimatorCalls' = Append(estimatorCalls,
                                [endpoint |-> request.endpoint, nodes |-> nodes])
    /\ ereq' = Called(request, "llm")
    /\ epc' = "estimating"

Answer(request, status) ==
    /\ ereq' = WithField(request, "status", status)
    /\ epc' = "done"
    /\ UNCHANGED estimatorCalls

\* POST /workflows/:id/estimate issues its select
StartEstimate ==
    /\ CanServe
    /\ served' = served + 1
    /\ ereq' = Called(Begin("estimate", ""), "edges")
    /\ epc' = "edges"
    /\ UNCHANGED <<estimatorCalls, pathVars, validatorVars, serviceVars>>

\* POST /estimate-nodes
EstimateNodes(body) ==
    /\ CanServe
    /\ served' = served + 1
    /\ LET request == WithField(Begin("estimate-nodes", ""), "body", body)
       IN IF body.kind # "array" \/ Len(body.items) = 0
          THEN Answer(request, 400)
          ELSE CallEstimator(request, body.items)
    /\ UNCHANGED <<pathVars, validatorVars, serviceVars>>

\* POST /workflows/:id/implement, the variant with the token in the body
StartImplementBody(access_token) ==
    /\ CanServe
    /\ served' = served + 1
    /\ IF access_token = ""
       THEN Answer(Begin("implement", access_token), 400)
       ELSE /\ ereq' = Called(Begin("implement", access_token), "edges")
            /\ epc' = "edges"
            /\ UNCHANGED estimatorCalls
    /\ UNCHANGED <<pathVars, validatorVars, serviceVars>>

\* the credential of an Authorization header
BearerToken(authHeader) == IF authHeader = << >> THEN "" ELSE authHeader[2]

\* POST /workflows/:id/implement, the variant with the Authorization header
StartImplementHeader(authHeader) ==
    /\ CanServe
    /\ served' = served + 1
    /\ IF authHeader = << >> \/ authHeader[1] # "Bearer "
       THEN Answer(Begin("implement", ""), 401)
       ELSE /\ ereq' = Called(Begin("implement", BearerToken(authHeader)), "token")
            /\ epc' = "token"
            /\ UNCHANGED estimatorCalls
    /\ UNCHANGED <<pathVars, validatorVars, serviceVars>>

\* getGoogleAccessToken returns or throws; it throws for a session that is
\* not live
TokenReturn(ok) ==
    /\ epc = "token"
    /\ ok => ereq.credential \in ValidCredentials
    /\ IF ok
       THEN epc' = "edges" /\ ereq' = Called(ereq, "edges") /\ UNCHANGED estimatorCalls
       ELSE Answer(ereq, 401)
    /\ UNCHANGED <<served, pathVars, validatorVars, serviceVars>>

\* the select of workflow_edges returns: the handler builds the node list and,
\* unless it answers, calls the estimator
EdgesReturn(result) ==
    /\ epc = "edges"
    /\ IF ereq.endpoint = "estimate"
       THEN IF result.error THEN Answer(ereq, 500)
            ELSE IF Len(UniqueNodes(result.data, << >>)) = 0 THEN Answer(ereq, 400)
            ELSE CallEstimator(ereq, UniqueNodes(result.data, << >>))
       ELSE CallEstimator(ereq,
                IF result.error THEN << >> ELSE UniqueNodes(result.data, << >>))
    /\ UNCHANGED <<served, pathVars, validatorVars, serviceVars>>

\* estimateWorkflowTime returns: the estimate routes answer, the implement
\* route generates the schedule and calls the calendar exporter
EstimatorReturn ==
    /\ epc = "estimating"
    /\ IF ereq.endpoint = "implement"
       THEN epc' = "calendar" /\ ereq' = Called(ereq, "calendar") /\ UNCHANGED estimatorCalls
       ELSE Answer(ereq, 200)
    /\ UNCHANGED <<served, pathVars, validatorVars, serviceVars>>

\* createCalendarEvents returns or throws. It is given `events` events: it
\* throws at an insert that fails, and Google refuses every insert made with a
\* credential that is not an access token of the user; without events it
\* returns without calling Google.
CalendarReturn(events, ok) ==
    /\ epc = "calendar"
    /\ events = 0 => ok
    /\ (ok /\ events > 0) => ereq.credential \in ValidCredentials
    /\ Answer(WithField(ereq, "eventCount", IF ok THEN events ELSE 0),
              IF ok THEN 200 ELSE 500)
    /\ UNCHANGED <<served, pathVars, validatorVars, serviceVars>>

\* lengths of the schedule handed to the calendar exporter
EventCounts == {0, 1}

NextEstimate ==
    \/ StartEstimate
    \/ \E body \in NodesBodies : EstimateNodes(body)
    \/ \E access_token \in AccessTokens : StartImplementBody(access_token)
    \/ \E authHeader \in AuthHeaders : StartImplementHeader(authHeader)
    \/ \E ok \in BOOLEAN : TokenReturn(ok)
    \/ \E result \in EdgeResults : EdgesReturn(result)
    \/ EstimatorReturn
    \/ \E events \in EventCounts, ok \in BOOLEAN : CalendarReturn(events, ok)

SpecEstimate == Init /\ [][NextEstimate]_vars

\* ---------------------------------------------------- estimateWorkflowTime
\* nodes are named by their ids; their titles
NodeIds == 1..3

NodeTitle(id) ==
    CASE id = 1 -> Py
      [] id = 2 -> Sq
      [] OTHER -> <<"p">>

\* Math.ceil(a / b), b # 0
Ceil(a, b) == -((-a) \div b)

\* String.prototype.includes
Includes(s, t) ==
    \E i \in 0..(Len(s) - Len(t)) : SubSeq(s, i + 1, i + Len(t)) = t

\* `Pelajari ${node.title}`
DefaultDescription(id) == <<"Pelajari", " ">> \o NodeTitle(id)

\* The completions call of the estimator fails, or answers with a text: "{",
\* "}" and "x" as for the validator, and a body token naming the members of
\* one JSON object. A member a body leaves out is absent from the record.
EstimateBodies ==
    [ B1 |-> [ nodes |-> << [title |-> py, hours |-> 3, description |-> <<"d">>],
                           [title |-> Sq, hours |-> 4] >>,
               suggestedDailyHours |-> 3, totalHours |-> 99, totalDays |-> 99 ],
      B2 |-> [ nodes |-> << [title |-> <<"Z">>, hours |-> 4],
                           [title |-> <<"Q">>, hours |-> 0] >>,
               suggestedDailyHours |-> 0 ],
      B3 |-> [ nodes |-> << [hours |-> 7] >>, suggestedDailyHours |-> 1 ],
      B4 |-> [ nodes |-> << [title |-> <<"p">>, hours |-> -1] >>,
               suggestedDailyHours |-> -2, totalDays |-> 1 ] ]

EstimatorTokens == {"{", "}", "x"} \cup DOMAIN EstimateBodies

\* JSON.parse throws unless the match is "{}" or one body in braces
EstimateParseThrows(m) ==
    ~(m = <<"{", "}">> \/ (Len(m) = 3 /\ m[1] = "{" /\ m[3] = "}"
                                      /\ m[2] \in DOMAIN EstimateBodies))

EstimateJsonParse(m) == IF Len(m) = 2 THEN EmptyObject ELSE EstimateBodies[m[2]]

\* the callback of result.nodes.find: it reads n.title of the entry
TitleMatches(entry, id) ==
    /\ "title" \in DOMAIN entry
    /\ \/ Includes(ToLowerCase(entry.title), ToLowerCase(NodeTitle(id)))
       \/ Includes(ToLowerCase(NodeTitle(id)), ToLowerCase(entry.title))

\* index of the entry find returns, 0 when it returns undefined
FindIndex(entries, id) ==
    IF \E j \in DOMAIN entries : TitleMatches(entries[j], id)
    THEN CHOOSE j \in DOMAIN entries :
            /\ TitleMatches(entries[j], id)
            /\ \A k \in 1..(j - 1) : ~TitleMatches(entries[k], id)
    ELSE 0

\* find throws a TypeError when it reaches an entry without a title
FindThrows(entries, id) ==
    \E j \in DOMAIN entries :
        /\ "title" \notin DOMAIN entries[j]
        /\ \A k \in 1..(j - 1) : ~TitleMatches(entries[k], id)

\* result.nodes?.find(...) || result.nodes?.[i]; NullData for undefined
AiNode(result, id, i) ==
    IF "nodes" \notin DOMAIN result THEN NullData
    ELSE LET j == FindIndex(result.nodes, id)
         IN IF j > 0 THEN result.nodes[j]
            ELSE IF i \in DOMAIN result.nodes THEN result.nodes[i] ELSE NullData

\* value || fallback of an optional number
OrDefault(object, field, fallback) ==
    IF field \in DOMAIN object /\ object[field] # 0 THEN object[field] ELSE fallback

NodeEstimate(result, id, i) ==
    LET aiNode == AiNode(result, id, i)
    IN [ nodeId |-> id,
         nodeTitle |-> NodeTitle(id),
         estimatedHours |-> OrDefault(aiNode, "hours", 5),
         description |-> IF "description" \in DOMAIN aiNode /\ aiNode.description # << >>
                         THEN aiNode.description ELSE DefaultDescription(id) ]

RECURSIVE SumHours(_)
SumHours(estimates) ==
    IF estimates = << >> THEN 0
    ELSE estimates[1].estimatedHours + SumHours(Tail(estimates))

\* a plausible slip: Math.floor
createDefaultEstimateFloor(nodes) ==
    [ totalHours |-> Len(nodes) * 5,
      nodes |-> [i \in DOMAIN nodes |->
                    [ nodeId |-> nodes[i], nodeTitle |-> NodeTitle(nodes[i]),
                      estimatedHours |-> 5, description |-> DefaultDescription(nodes[i]) ]],
      suggestedDailyHours |-> 2,
      totalDays |-> (Len(nodes) * 5) \div 2 ]

createDefaultEstimate(nodes) ==
    [ totalHours |-> Len(nodes) * 5,
      nodes |-> [i \in DOMAIN nodes |->
                    [ nodeId |-> nodes[i], nodeTitle |-> NodeTitle(nodes[i]),
                      estimatedHours |-> 5, description |-> DefaultDescription(nodes[i]) ]],
      suggestedDailyHours |-> 2,
      totalDays |-> Ceil(Len(nodes) * 5, 2) ]

\* a plausible slip: the day count of the answer used when it has one
MappedEstimateTrusting(nodes, result) ==
    LET nodeEstimates == [i \in DOMAIN nodes |-> NodeEstimate(result, nodes[i], i)]
        totalHours == SumHours(nodeEstimates)
        suggestedDailyHours == OrDefault(result, "suggestedDailyHours", 2)
    IN [ totalHours |-> totalHours,
         nodes |-> nodeEstimates,
         suggestedDailyHours |-> suggestedDailyHours,
         totalDays |-> OrDefault(result, "totalDays",
                                 Ceil(totalHours, suggestedDailyHours)) ]

\* the schedule built from a parsed answer
MappedEstimate(nodes, result) ==
    LET nodeEstimates == [i \in DOMAIN nodes |-> NodeEstimate(result, nodes[i], i)]
        totalHours == SumHours(nodeEstimates)
        suggestedDailyHours == OrDefault(result, "suggestedDailyHours", 2)
    IN [ totalHours |-> totalHours,
         nodes |-> nodeEstimates,
         suggestedDailyHours |-> suggestedDailyHours,
         totalDays |-> Ceil(totalHours, suggestedDailyHours) ]

\* estimateWorkflowTime, from its nodes and the outcome of its single
\* completions call to the schedule it returns
estimateWorkflowTime(nodes, outcome) ==
    IF outcome = LLMError THEN createDefaultEstimate(nodes)
    ELSE LET m == JsonMatch(outcome)
         IN IF m = NoMatch THEN createDefaultEstimate(nodes)
            ELSE IF EstimateParseThrows(m) THEN createDefaultEstimate(nodes)
            ELSE LET result == EstimateJsonParse(m)
                 IN IF /\ "nodes" \in DOMAIN result
                       /\ \E i \in DOMAIN nodes : FindThrows(result.nodes, nodes[i])
                    THEN createDefaultEstimate(nodes)
                    ELSE MappedEstimate(nodes, result)

\* the node lists and the outcomes of the completions call it is tried on
NodeLists == UNION { [1..n -> NodeIds] : n \in 0..MaxNodes }

EstimatorOutcomes ==
    {LLMError} \cup UNION { [1..n -> EstimatorTokens] : n \in 0..MaxTextLen }

EstimatorReturns ==
    /\ estimator.pc = "call"
    /\ estimator' = [estimator EXCEPT
          !.pc = "returned",
          !.result = estimateWorkflowTime(estimator.nodes, estimator.outcome)]
    /\ UNCHANGED otherThanEstimator

InitEstimator ==
    /\ InitPath
    /\ vpc = "call" /\ voutcome = LLMError /\ vreturn = NullData
    /\ InitEstimate
    /\ \E nodes \in NodeLists, outcome \in EstimatorOutcomes :
          estimator = CallOfEstimator(nodes, outcome)
    /\ IdleSchedule
    /\ IdleCalendar
    /\ IdleDuplicate
    /\ InitApi

NextEstimator == EstimatorReturns

SpecEstimator == InitEstimator /\ [][NextEstimator]_vars

\* ------------------------------------------------- generateLearningSchedule
\* Dates are day numbers: setDate(getDate() + 1) moves a date to the same
\* time of the next calendar day.
Min(a, b) == IF a < b THEN a ELSE b

\* a plausible slip: every session as long as the daily budget
SessionHoursFull(dailyHours, hoursRemaining, hoursScheduled) == dailyHours

\* Math.min(dailyHours, hoursRemaining - hoursScheduled)
SessionHours(dailyHours, hoursRemaining, hoursScheduled) ==
    Min(dailyHours, hoursRemaining - hoursScheduled)

\* a plausible slip: the day kept while the session left part of the budget
NextDayWhenFull(currentDate, sessionHours, dailyHours) ==
    IF sessionHours < dailyHours THEN currentDate ELSE currentDate + 1

\* currentDate.setDate(currentDate.getDate() + 1)
NextDay(currentDate, sessionHours, dailyHours) == currentDate + 1

\* the estimates of nodes 1..n with the hours given
EstimatesOf(hours) ==
    [i \in DOMAIN hours |->
        [ nodeId |-> i, nodeTitle |-> NodeTitle(i), estimatedHours |-> hours[i],
          description |-> DefaultDescription(i) ]]

\* one turn of the while loop: a session is pushed and the day advances
ScheduleSession ==
    /\ schedule.pc = "loop"
    /\ schedule.node \in DOMAIN schedule.nodes
    /\ schedule.hoursScheduled < schedule.nodes[schedule.node].estimatedHours
    /\ Len(schedule.events) < MaxEvents
    /\ LET node == schedule.nodes[schedule.node]
           sessionHours == SessionHours(schedule.dailyHours, node.estimatedHours,
                                        schedule.hoursScheduled)
       IN schedule' = [schedule EXCEPT
              !.events = Append(@, [ title |-> node.nodeTitle,
                                     description |-> node.description,
                                     startDate |-> schedule.currentDate,
                                     durationHours |-> sessionHours,
                                     node |-> schedule.node ]),
              !.hoursScheduled = @ + sessionHours,
              !.currentDate = NextDay(@, sessionHours, schedule.dailyHours)]
    /\ UNCHANGED otherThanSchedule

\* events.push with no memory left for one more event: the loop condition
\* is still true when the list has reached MaxEvents events, the most the
\* process can hold, and the call ends without returning
ScheduleExhausted ==
    /\ schedule.pc = "loop"
    /\ schedule.node \in DOMAIN schedule.nodes
    /\ schedule.hoursScheduled < schedule.nodes[schedule.node].estimatedHours
    /\ Len(schedule.events) = MaxEvents
    /\ schedule' = [schedule EXCEPT !.pc = "exhausted"]
    /\ UNCHANGED otherThanSchedule

\* the while loop ends: the for loop takes the next node
ScheduleNextNode ==
    /\ schedule.pc = "loop"
    /\ schedule.node \in DOMAIN schedule.nodes
    /\ ~(schedule.hoursScheduled < schedule.nodes[schedule.node].estimatedHours)
    /\ schedule' = [schedule EXCEPT !.node = @ + 1, !.hoursScheduled = 0]
    /\ UNCHANGED otherThanSchedule

\* the for loop ends: return events
ScheduleReturn ==
    /\ schedule.pc = "loop"
    /\ schedule.node \notin DOMAIN schedule.nodes
    /\ schedule' = [schedule EXCEPT !.pc = "returned"]
    /\ UNCHANGED otherThanSchedule

\* estimatedHours of a node, startDate and dailyHours the generator is tried on
HourValues == {-1, 0, 1, 2, 3, 5}
StartDates == {0, 7}
DailyHourValues == {-1, 1, 2, 3}

InitSchedule ==
    /\ InitPath
    /\ vpc = "call" /\ voutcome = LLMError /\ vreturn = NullData
    /\ InitEstimate
    /\ IdleEstimator
    /\ IdleCalendar
    /\ IdleDuplicate
    /\ InitApi
    /\ \E n \in 0..MaxNodes :
          \E hours \in [1..n -> HourValues], startDate \in StartDates,
             dailyHours \in DailyHourValues :
                schedule = CallOfSchedule(EstimatesOf(hours), startDate, dailyHours)

NextSchedule ==
    \/ ScheduleSession
    \/ ScheduleExhausted
    \/ ScheduleNextNode
    \/ ScheduleReturn

SpecSchedule == InitSchedule /\ [][NextSchedule]_vars

\* ----------------------------------------------------- createCalendarEvents
\* a Date of the exporter: a day number and an hour of that day
\* endDate.setHours(endDate.getHours() + event.durationHours)
EndDate(startDate, durationHours) ==
    [ day |-> startDate.day + ((startDate.hour + durationHours) \div 24),
      hour |-> (startDate.hour + durationHours) % 24 ]

\* requestBody of calendar.events.insert
RequestBody(event) ==
    [ summary |-> <<"book", " ">> \o event.title,
      description |-> event.description,
      start |-> event.startDate,
      end |-> EndDate(event.startDate, event.durationHours),
      colorId |-> "9",
      reminder |-> [method |-> "popup", minutes |-> 30] ]

\* what the remote calendar does with one insert: it fails, or creates the
\* event and answers with its id, or with no id
InsertOutcomes == {"failed", "created", "createdNoId"}

\* a plausible slip: all inserts sent at once (Promise.all over the events)
IssueAllAtOnce(events, lastAnswered) ==
    IF lastAnswered = 0 THEN DOMAIN events ELSE {}

\* the events insert is called for once call lastAnswered has been answered
\* (0: at the call of the exporter): the next event of the for loop, if any
IssueNext(events, lastAnswered) ==
    IF lastAnswered + 1 \in DOMAIN events THEN {lastAnswered + 1} ELSE {}

RECURSIVE InOrder(_)
InOrder(S) ==
    IF S = {} THEN << >>
    ELSE LET k == CHOOSE x \in S : \A y \in S : x <= y
         IN <<k>> \o InOrder(S \ {k})

\* the exporter sends the inserts due and, none left unanswered, returns
Proceed(cal, lastAnswered) ==
    LET due == IssueNext(cal.events, lastAnswered)
        inFlight == (cal.inFlight \ {lastAnswered}) \cup due
    IN [cal EXCEPT !.inFlight = inFlight,
                   !.issued = @ \o InOrder(due),
                   !.pc = IF inFlight = {} THEN "returned" ELSE "inserting"]

\* a plausible slip: the failure logged and the loop going on
InsertFailedSkipped(cal, k) == Proceed([cal EXCEPT !.failed = k], k)

\* the catch block of the loop body: throw new Error(...)
InsertFailed(cal, k) ==
    [cal EXCEPT !.pc = "raised", !.failed = k, !.inFlight = @ \ {k}]

\* createCalendarEvents is called: the loop reaches its first insert
CreateEventsStart ==
    /\ calendar.pc = "call"
    /\ calendar' = Proceed(calendar, 0)
    /\ UNCHANGED otherThanCalendar

\* the remote calendar answers an insert; the exporter pushes the id, or
\* throws, and goes on with the loop
InsertReturn(k, outcome) ==
    /\ calendar.pc = "inserting"
    /\ k \in calendar.inFlight
    /\ IF outcome = "failed"
       THEN calendar' = InsertFailed(calendar, k)
       ELSE LET id == Cardinality(calendar.remote) + 1
                created == [calendar EXCEPT
                    !.remote = @ \cup { [ id |-> id, event |-> k,
                                          body |-> RequestBody(calendar.events[k]),
                                          answeredId |-> outcome = "created" ] },
                    !.eventIds = IF outcome = "created" THEN Append(@, id) ELSE @]
            IN calendar' = Proceed(created, k)
    /\ UNCHANGED otherThanCalendar

\* the event lists the exporter is tried on: sessions at 9:00 of consecutive
\* days, of the durations given
DurationValues == {1, 2, 16}

CalendarEventsOf(durations) ==
    [k \in DOMAIN durations |->
        [ title |-> NodeTitle(1), description |-> DefaultDescription(1),
          startDate |-> [day |-> k - 1, hour |-> 9],
          durationHours |-> durations[k] ]]

InitCalendar ==
    /\ InitPath
    /\ vpc = "call" /\ voutcome = LLMError /\ vreturn = NullData
    /\ InitEstimate
    /\ IdleEstimator
    /\ IdleSchedule
    /\ IdleDuplicate
    /\ InitApi
    /\ \E n \in 0..MaxCalendarEvents :
          \E durations \in [1..n -> DurationValues] :
              calendar = CallOfCalendar(CalendarEventsOf(durations))

NextCalendar ==
    \/ CreateEventsStart
    \/ \E k \in DOMAIN calendar.events, outcome \in InsertOutcomes : InsertReturn(k, outcome)

SpecCalendar == InitCalendar /\ [][NextCalendar]_vars

\* ------------------------------------------------------- checkDuplicateNode
\* The completions call of the duplicate check fails, or answers with a text
\* whose body tokens name the members of one JSON object; in D5 the member
\* similarNodeTitle holds a number.
DuplicateBodies ==
    [ D1 |-> [ isDuplicate |-> FALSE, reason |-> "unique" ],
      D2 |-> [ isDuplicate |-> TRUE, reason |-> "same as py", similarNodeTitle |-> py ],
      D3 |-> [ isDuplicate |-> TRUE, reason |-> "same as Z", similarNodeTitle |-> <<"Z">> ],
      D4 |-> [ isDuplicate |-> TRUE, reason |-> "same as one" ],
      D5 |-> [ isDuplicate |-> TRUE, reason |-> "same as 7", similarNodeNumber |-> 7 ],
      D6 |-> [ isDuplicate |-> FALSE, reason |-> "unlike Py", similarNodeTitle |-> Py ] ]

DuplicateTokens == {"{", "}", "x"} \cup DOMAIN DuplicateBodies

DuplicateParseThrows(m) ==
    ~(m = <<"{", "}">> \/ (Len(m) = 3 /\ m[1] = "{" /\ m[3] = "}"
                                      /\ m[2] \in DOMAIN DuplicateBodies))

DuplicateJsonParse(m) == IF Len(m) = 2 THEN EmptyObject ELSE DuplicateBodies[m[2]]

\* result.isDuplicate && result.similarNodeTitle
ClaimsSimilar(result) ==
    /\ "isDuplicate" \in DOMAIN result /\ result.isDuplicate
    /\ \/ "similarNodeTitle" \in DOMAIN result /\ result.similarNodeTitle # Empty
       \/ "similarNodeNumber" \in DOMAIN result /\ result.similarNodeNumber # 0

\* a plausible slip: the titles compared letter for letter
SameTitleExact(title, claimed) == title = claimed

\* n.title.toLowerCase() === result.similarNodeTitle.toLowerCase()
SameTitle(title, claimed) == ToLowerCase(title) = ToLowerCase(claimed)

\* index of the node existingNodes.find returns, 0 for undefined
FindSimilar(existingNodes, claimed) ==
    IF \E i \in DOMAIN existingNodes : SameTitle(existingNodes[i].title, claimed)
    THEN CHOOSE i \in DOMAIN existingNodes :
            /\ SameTitle(existingNodes[i].title, claimed)
            /\ \A j \in 1..(i - 1) : ~SameTitle(existingNodes[j].title, claimed)
    ELSE 0

NoJsonDuplicate == [isDuplicate |-> FALSE, reason |-> "Tidak dapat memeriksa duplikasi."]
CatchDuplicate == [isDuplicate |-> FALSE, reason |-> "Gagal memeriksa duplikasi."]

\* result.reason, a member the object may lack
ReasonOf(result) == IF "reason" \in DOMAIN result THEN result.reason ELSE Undefined

\* checkDuplicateNode, from its arguments and the outcome of its single
\* completions call to the value it returns; similarNode is absent from the
\* value when it is undefined
checkDuplicateNode(newTitle, existingNodes, outcome) ==
    IF outcome = LLMError THEN CatchDuplicate
    ELSE LET m == JsonMatch(outcome)
         IN IF m = NoMatch THEN NoJsonDuplicate
            ELSE IF DuplicateParseThrows(m) THEN CatchDuplicate
            ELSE LET result == DuplicateJsonParse(m)
                 IN IF ~ClaimsSimilar(result)
                    THEN [isDuplicate |-> FALSE, reason |-> ReasonOf(result)]
                    ELSE IF "similarNodeNumber" \in DOMAIN result
                    THEN IF existingNodes = << >>
                         THEN [isDuplicate |-> TRUE, reason |-> ReasonOf(result)]
                         ELSE CatchDuplicate
                    ELSE LET i == FindSimilar(existingNodes, result.similarNodeTitle)
                         IN IF i = 0
                            THEN [isDuplicate |-> TRUE, reason |-> ReasonOf(result)]
                            ELSE [ isDuplicate |-> TRUE, reason |-> ReasonOf(result),
                                   similarNode |-> [ id |-> existingNodes[i].id,
                                                     title |-> existingNodes[i].title ] ]

\* rows of learning_nodes of one topic, as a select returns them
NodeRows ==
    { [id |-> 1, topic_id |-> 1, title |-> Py],
      [id |-> 2, topic_id |-> 1, title |-> Sq],
      [id |-> 3, topic_id |-> 1, title |-> py] }

ExistingLists == UNION { [1..n -> NodeRows] : n \in 1..MaxNodes }

DuplicateOutcomes ==
    {LLMError} \cup UNION { [1..n -> DuplicateTokens] : n \in 0..MaxTextLen }

DuplicateReturns ==
    /\ dup.pc = "call"
    /\ dup' = [dup EXCEPT
          !.pc = "returned",
          !.result = checkDuplicateNode(dup.newTitle, dup.existingNodes, dup.outcome)]
    /\ UNCHANGED otherThanDuplicate

InitDuplicate ==
    /\ InitPath
    /\ vpc = "call" /\ voutcome = LLMError /\ vreturn = NullData
    /\ InitEstimate
    /\ IdleEstimator
    /\ IdleSchedule
    /\ IdleCalendar
    /\ InitApi
    /\ \E existingNodes \in ExistingLists, outcome \in DuplicateOutcomes :
          dup = CallOfDuplicate(<<"P", "Y">>, existingNodes, outcome)

NextDuplicate == DuplicateReturns

SpecDuplicate == InitDuplicate /\ [][NextDuplicate]_vars

\* ------------------------------------------------------------- POST /nodes
\* req.body: topic_id (0 when the member is missing) and title
NodeBodies ==
    { [topic_id |-> 1, title |-> Py], [topic_id |-> 1, title |-> py],
      [topic_id |-> 0, title |-> Py], [topic_id |-> 1, title |-> Empty] }

\* answers of the completions call the route is tried on
NodeCheckOutcomes ==
    { LLMError, <<"x">>, <<"{", "D1", "}">>, <<"{", "D2", "}">>,
      <<"x", "{", "D3", "}">>, <<"{", "D4", "}">> }

\* rows in the order of their ids
RECURSIVE RowsInOrder(_)
RowsInOrder(rows) ==
    IF rows = {} THEN << >>
    ELSE LET first == CHOOSE row \in rows : \A other \in rows : row.id <= other.id
         IN <<first>> \o RowsInOrder(rows \ {first})

\* .from('learning_nodes').select('id, title, description').eq('topic_id', topic_id)
SelectNodes(rows, topic_id, ok) ==
    IF ok THEN RowsInOrder({ row \in rows : row.topic_id = topic_id }) ELSE << >>

\* a plausible slip: && for || in the check of the required members
NodeStartBothMissing(n, body) ==
    /\ nreq[n].pc = "idle"
    /\ \A m \in 1..(n - 1) : nreq[m].pc # "idle"
    /\ IF body.topic_id = 0 /\ Falsy(body.title)
       THEN nreq' = [nreq EXCEPT ![n] =
                [@ EXCEPT !.pc = "done", !.topic_id = body.topic_id, !.title = body.title,
                          !.response = [status |-> 400, success |-> FALSE]]]
       ELSE nreq' = [nreq EXCEPT ![n] =
                [@ EXCEPT !.pc = "select", !.topic_id = body.topic_id, !.title = body.title,
                          !.log = <<"select">>]]
    /\ UNCHANGED <<learning_nodes, otherThanNodes>>

\* the handler up to its first await
NodeStart(n, body) ==
    /\ nreq[n].pc = "idle"
    /\ \A m \in 1..(n - 1) : nreq[m].pc # "idle"
    /\ IF body.topic_id = 0 \/ Falsy(body.title)
       THEN nreq' = [nreq EXCEPT ![n] =
                [@ EXCEPT !.pc = "done", !.topic_id = body.topic_id, !.title = body.title,
                          !.response = [status |-> 400, success |-> FALSE]]]
       ELSE nreq' = [nreq EXCEPT ![n] =
                [@ EXCEPT !.pc = "select", !.topic_id = body.topic_id, !.title = body.title,
                          !.log = <<"select">>]]
    /\ UNCHANGED <<learning_nodes, otherThanNodes>>

\* the select returns: the duplicate check is called when there are nodes,
\* the insert otherwise
NodeSelectReturn(n, ok) ==
    /\ nreq[n].pc = "select"
    /\ LET existingNodes == SelectNodes(learning_nodes, nreq[n].topic_id, ok)
       IN nreq' = [nreq EXCEPT ![n] =
              IF ok /\ Len(existingNodes) > 0
              THEN [@ EXCEPT !.pc = "check", !.existingNodes = existingNodes,
                             !.log = Append(@, "llm")]
              ELSE [@ EXCEPT !.pc = "insert", !.existingNodes = existingNodes,
                             !.selectError = ~ok, !.log = Append(@, "insert")]]
    /\ UNCHANGED <<learning_nodes, otherThanNodes>>

DuplicateResponse(duplicateCheck) ==
    LET base == [ status |-> 200, success |-> FALSE, isDuplicate |-> TRUE,
                  reason |-> duplicateCheck.reason ]
    IN IF "similarNode" \in DOMAIN duplicateCheck
       THEN WithField(base, "similarNode", duplicateCheck.similarNode)
       ELSE base

\* a plausible slip: the return after the duplicate answer left out
NodeCheckReturnNoReturn(n, outcome) ==
    /\ nreq[n].pc = "check"
    /\ LET duplicateCheck ==
              checkDuplicateNode(nreq[n].title, nreq[n].existingNodes, outcome)
       IN nreq' = [nreq EXCEPT ![n] =
              IF duplicateCheck.isDuplicate
              THEN [@ EXCEPT !.pc = "insert", !.duplicateCheck = duplicateCheck,
                             !.response = DuplicateResponse(duplicateCheck),
                             !.log = Append(@, "insert")]
              ELSE [@ EXCEPT !.pc = "insert", !.duplicateCheck = duplicateCheck,
                             !.log = Append(@, "insert")]]
    /\ UNCHANGED <<learning_nodes, otherThanNodes>>

\* checkDuplicateNode returns: the duplicate is answered, or the insert called
NodeCheckReturn(n, outcome) ==
    /\ nreq[n].pc = "check"
    /\ LET duplicateCheck ==
              checkDuplicateNode(nreq[n].title, nreq[n].existingNodes, outcome)
       IN nreq' = [nreq EXCEPT ![n] =
              IF duplicateCheck.isDuplicate
              THEN [@ EXCEPT !.pc = "done", !.duplicateCheck = duplicateCheck,
                             !.response = DuplicateResponse(duplicateCheck)]
              ELSE [@ EXCEPT !.pc = "insert", !.duplicateCheck = duplicateCheck,
                             !.log = Append(@, "insert")]]
    /\ UNCHANGED <<learning_nodes, otherThanNodes>>

\* the store runs the insert, or fails it
NodeInsertReturn(n, ok) ==
    /\ nreq[n].pc = "insert"
    /\ LET row == [ id |-> Cardinality(learning_nodes) + 1,
                    topic_id |-> nreq[n].topic_id, title |-> nreq[n].title ]
       IN IF ok
          THEN /\ learning_nodes' = learning_nodes \cup {row}
               /\ nreq' = [nreq EXCEPT ![n] =
                     [@ EXCEPT !.pc = "done", !.inserted = row.id,
                               !.response = [status |-> 200, success |-> TRUE, data |-> row]]]
          ELSE /\ UNCHANGED learning_nodes
               /\ nreq' = [nreq EXCEPT ![n] =
                     [@ EXCEPT !.pc = "done",
                               !.response = [status |-> 500, success |-> FALSE]]]
    /\ UNCHANGED otherThanNodes

NodeStep ==
    \/ \E n \in NodeRequests, body \in NodeBodies : NodeStart(n, body)
    \/ \E n \in NodeRequests, ok \in BOOLEAN : NodeSelectReturn(n, ok)
    \/ \E n \in NodeRequests, outcome \in NodeCheckOutcomes : NodeCheckReturn(n, outcome)
    \/ \E n \in NodeRequests, ok \in BOOLEAN : NodeInsertReturn(n, ok)

NextNodes == NodeStep

SpecNodes == Init /\ [][NextNodes]_vars

\* ------------------------------------------- POST /workflows, GET /workflows/mine
\* req.body of POST /workflows: user_id and topic_id (0 when the member is
\* missing), title, and the optional members
WorkflowBodies ==
    { [user_id |-> 1, topic_id |-> 1, title |-> Py],
      [user_id |-> 1, topic_id |-> 1, title |-> Sq, is_public |-> TRUE, is_draft |-> TRUE,
       edges |-> << <<1, 2>> >>],
      [user_id |-> 2, topic_id |-> 1, title |-> Py, edges |-> << >>],
      [user_id |-> 0, topic_id |-> 1, title |-> Py, edges |-> << <<1, 2>> >>],
      [user_id |-> 1, topic_id |-> 0, title |-> Py],
      [user_id |-> 1, topic_id |-> 1, title |-> Empty] }

\* the x-user-id header: absent, a user with workflows, any other string
UserIdHeaders == {0, 1, 9}

\* is_public || false
IsPublic(body) == "is_public" \in DOMAIN body /\ body.is_public

\* is_draft !== undefined ? is_draft : false
IsDraft(body) == IF "is_draft" \in DOMAIN body THEN body.is_draft ELSE FALSE

\* edges && edges.length > 0
HasEdges(body) == "edges" \in DOMAIN body /\ Len(body.edges) > 0

WorkflowRow(id, body) ==
    [ id |-> id, user_id |-> body.user_id, topic_id |-> body.topic_id, title |-> body.title,
      is_public |-> IsPublic(body), is_draft |-> IsDraft(body) ]

\* edges.map(...); an edge of the body is (source_node_id, target_node_id),
\* followed by its validation_reason when it has one
EdgeData(workflow_id, edges) ==
    { [ workflow_id |-> workflow_id, source_node_id |-> edges[i][1],
        target_node_id |-> edges[i][2],
        validation_reason |-> IF Len(edges[i]) > 2 THEN edges[i][3] ELSE Null ] :
      i \in DOMAIN edges }

\* POST /workflows up to its first await
WorkflowStart(w, body) ==
    /\ wreq[w].pc = "idle"
    /\ \A v \in 1..(w - 1) : wreq[v].pc # "idle"
    /\ IF body.user_id = 0 \/ body.topic_id = 0 \/ Falsy(body.title)
       THEN wreq' = [wreq EXCEPT ![w] =
                [@ EXCEPT !.pc = "done", !.endpoint = "create", !.body = body,
                          !.response = [status |-> 400, success |-> FALSE]]]
       ELSE wreq' = [wreq EXCEPT ![w] =
                [@ EXCEPT !.pc = "insert", !.endpoint = "create", !.body = body,
                          !.log = <<"insert">>]]
    /\ UNCHANGED <<workflows, workflow_edges, otherThanWorkflows>>

\* the insert of the workflow returns
WorkflowInsertReturn(w, ok) ==
    /\ wreq[w].pc = "insert"
    /\ LET workflow == WorkflowRow(Cardinality(workflows) + 1, wreq[w].body)
       IN IF ~ok
          THEN /\ wreq' = [wreq EXCEPT ![w] =
                     [@ EXCEPT !.pc = "done",
                               !.response = [status |-> 500, success |-> FALSE]]]
               /\ UNCHANGED workflows
          ELSE /\ workflows' = workflows \cup {workflow}
               /\ wreq' = [wreq EXCEPT ![w] =
                     IF HasEdges(wreq[w].body)
                     THEN [@ EXCEPT !.pc = "edges", !.workflow = workflow,
                                    !.log = Append(@, "insertEdges")]
                     ELSE [@ EXCEPT !.pc = "done", !.workflow = workflow,
                                    !.response = [status |-> 200, success |-> TRUE,
                                                  data |-> workflow]]]
    /\ UNCHANGED <<workflow_edges, otherThanWorkflows>>

\* the insert of the edges returns; its error is not looked at
WorkflowEdgesReturn(w, ok) ==
    /\ wreq[w].pc = "edges"
    /\ workflow_edges' =
          IF ok THEN workflow_edges \cup EdgeData(wreq[w].workflow.id, wreq[w].body.edges)
          ELSE workflow_edges
    /\ wreq' = [wreq EXCEPT ![w] =
          [@ EXCEPT !.pc = "done",
                    !.response = [status |-> 200, success |-> TRUE,
                                  data |-> wreq[w].workflow]]]
    /\ UNCHANGED <<workflows, otherThanWorkflows>>

\* GET /workflows/mine up to its first await
MineStart(w, userId) ==
    /\ wreq[w].pc = "idle"
    /\ \A v \in 1..(w - 1) : wreq[v].pc # "idle"
    /\ IF userId = 0
       THEN wreq' = [wreq EXCEPT ![w] =
                [@ EXCEPT !.pc = "done", !.endpoint = "mine", !.userId = userId,
                          !.response = [status |-> 401, success |-> FALSE]]]
       ELSE wreq' = [wreq EXCEPT ![w] =
                [@ EXCEPT !.pc = "mine", !.endpoint = "mine", !.userId = userId,
                          !.log = <<"select">>]]
    /\ UNCHANGED <<workflows, workflow_edges, otherThanWorkflows>>

\* the select of the user's workflows returns
MineSelectReturn(w, ok) ==
    /\ wreq[w].pc = "mine"
    /\ wreq' = [wreq EXCEPT ![w] =
          [@ EXCEPT !.pc = "done",
                    !.response =
                        IF ok
                        THEN [status |-> 200, success |-> TRUE,
                              data |-> { row \in workflows : row.user_id = wreq[w].userId }]
                        ELSE [status |-> 500, success |-> FALSE]]]
    /\ UNCHANGED <<workflows, workflow_edges, otherThanWorkflows>>

WorkflowStep ==
    \/ \E w \in WorkflowRequests, body \in WorkflowBodies : WorkflowStart(w, body)
    \/ \E w \in WorkflowRequests, ok \in BOOLEAN : WorkflowInsertReturn(w, ok)
    \/ \E w \in WorkflowRequests, ok \in BOOLEAN : WorkflowEdgesReturn(w, ok)
    \/ \E w \in WorkflowRequests, userId \in UserIdHeaders : MineStart(w, userId)
    \/ \E w \in WorkflowRequests, ok \in BOOLEAN : MineSelectReturn(w, ok)

\* ------------------------------------------------------- POST /quiz/submit
\* rows of material_page_quizzes; the handler only reads them
material_page_quizzes ==
    { [material_id |-> 1, page_number |-> 1, correct_answer |-> 1],
      [material_id |-> 1, page_number |-> 2, correct_answer |-> 0] }

\* req.body: material_id, page_number and user_id (0 when the member is
\* missing); selected_answer is absent when the member is missing
QuizBodies ==
    { [material_id |-> 1, page_number |-> 1, user_id |-> 1, selected_answer |-> 1],
      [material_id |-> 1, page_number |-> 1, user_id |-> 1, selected_answer |-> 0],
      [material_id |-> 1, page_number |-> 2, user_id |-> 1, selected_answer |-> 0],
      [material_id |-> 1, page_number |-> 2, user_id |-> 2, selected_answer |-> 1],
      [material_id |-> 1, page_number |-> 3, user_id |-> 1, selected_answer |-> 1],
      [material_id |-> 0, page_number |-> 1, user_id |-> 1, selected_answer |-> 1],
      [material_id |-> 1, page_number |-> 0, user_id |-> 1, selected_answer |-> 1],
      [material_id |-> 1, page_number |-> 1, user_id |-> 0, selected_answer |-> 1],
      [material_id |-> 1, page_number |-> 1, user_id |-> 1] }

\* `${material_id}_${page_number}`
ScoreKey(material_id, page_number) == <<material_id, page_number>>

\* { ...currentScores, [scoreKey]: scoreData }
SpreadScores(currentScores, scoreKey, scoreData) ==
    { entry \in currentScores : entry.key # scoreKey }
        \cup { WithField(scoreData, "key", scoreKey) }

\* a plausible slip: the score counts the submission, not the correct answer
ScoreDataAlwaysOne(isCorrect, selected_answer, answered_at) ==
    [ score |-> 1,
      answered_at |-> answered_at,
      selected_answer |-> selected_answer,
      is_correct |-> isCorrect ]

\* scoreData
ScoreData(isCorrect, selected_answer, answered_at) ==
    [ score |-> IF isCorrect THEN 1 ELSE 0,
      answered_at |-> answered_at,
      selected_answer |-> selected_answer,
      is_correct |-> isCorrect ]

\* the handler up to its first await
QuizStart(q, body) ==
    /\ qreq[q].pc = "idle"
    /\ \A o \in 1..(q - 1) : qreq[o].pc # "idle"
    /\ IF \/ body.material_id = 0 \/ body.page_number = 0 \/ body.user_id = 0
          \/ "selected_answer" \notin DOMAIN body
       THEN qreq' = [qreq EXCEPT ![q] =
                [@ EXCEPT !.pc = "done", !.body = body,
                          !.response = [status |-> 400, success |-> FALSE]]]
       ELSE qreq' = [qreq EXCEPT ![q] =
                [@ EXCEPT !.pc = "quiz", !.body = body, !.log = <<"selectQuiz">>]]
    /\ UNCHANGED <<user_profiles, otherThanQuiz>>

\* the select of the quiz returns
QuizSelectReturn(q, ok) ==
    /\ qreq[q].pc = "quiz"
    /\ LET body == qreq[q].body
           rows == { row \in material_page_quizzes :
                        /\ row.material_id = body.material_id
                        /\ row.page_number = body.page_number }
       IN IF ~ok \/ rows = {}
          THEN qreq' = [qreq EXCEPT ![q] =
                   [@ EXCEPT !.pc = "done",
                             !.response = [status |-> 404, success |-> FALSE]]]
          ELSE LET quiz == CHOOSE row \in rows : TRUE
               IN qreq' = [qreq EXCEPT ![q] =
                      [@ EXCEPT !.pc = "profile", !.quiz = quiz,
                                !.isCorrect = (quiz.correct_answer = body.selected_answer),
                                !.log = Append(@, "selectProfile")]]
    /\ UNCHANGED <<user_profiles, otherThanQuiz>>

\* the select of the user's quiz_scores returns: the handler builds the
\* scores to write and issues the update
QuizProfileReturn(q, ok) ==
    /\ qreq[q].pc = "profile"
    /\ LET body == qreq[q].body
           rows == { row \in user_profiles : row.user_id = body.user_id }
           currentScores == IF ok /\ rows # {} THEN (CHOOSE row \in rows : TRUE).quiz_scores
                            ELSE {}
           scoreData == ScoreData(qreq[q].isCorrect, body.selected_answer, now)
       IN qreq' = [qreq EXCEPT ![q] =
              [@ EXCEPT !.pc = "update",
                        !.updatedScores =
                            SpreadScores(currentScores,
                                         ScoreKey(body.material_id, body.page_number),
                                         scoreData),
                        !.log = Append(@, "update")]]
    /\ UNCHANGED <<user_profiles, otherThanQuiz>>

\* the update returns
QuizUpdateReturn(q, ok) ==
    /\ qreq[q].pc = "update"
    /\ IF ok
       THEN /\ user_profiles' =
                  { IF row.user_id = qreq[q].body.user_id
                    THEN [row EXCEPT !.quiz_scores = qreq[q].updatedScores]
                    ELSE row : row \in user_profiles }
            /\ qreq' = [qreq EXCEPT ![q] =
                  [@ EXCEPT !.pc = "done",
                            !.response = [ status |-> 200, success |-> TRUE,
                                           is_correct |-> qreq[q].isCorrect,
                                           correct_answer |-> qreq[q].quiz.correct_answer,
                                           selected_answer |-> qreq[q].body.selected_answer ]]]
       ELSE /\ UNCHANGED user_profiles
            /\ qreq' = [qreq EXCEPT ![q] =
                  [@ EXCEPT !.pc = "done",
                            !.response = [status |-> 500, success |-> FALSE]]]
    /\ UNCHANGED otherThanQuiz

QuizStep ==
    \/ \E q \in QuizRequests, body \in QuizBodies : QuizStart(q, body)
    \/ \E q \in QuizRequests, ok \in BOOLEAN : QuizSelectReturn(q, ok)
    \/ \E q \in QuizRequests, ok \in BOOLEAN : QuizProfileReturn(q, ok)
    \/ \E q \in QuizRequests, ok \in BOOLEAN : QuizUpdateReturn(q, ok)

NextQuiz == QuizStep

SpecQuiz == Init /\ [][NextQuiz]_vars

\* ------------------------------------------------ the endpoints on one server
\* requests begun so far, of every endpoint
ApiBegun ==
    Cardinality({ r \in Requests : pc[r] # "idle" }) + served
        + Cardinality({ n \in NodeRequests : nreq[n].pc # "idle" })
        + Cardinality({ w \in WorkflowRequests : wreq[w].pc # "idle" })
        + Cardinality({ q \in QuizRequests : qreq[q].pc # "idle" })

\* the server is sent MaxApiRequests requests
ApiOpen == ApiBegun < MaxApiRequests

ApiValidatePath(r, body) == ApiOpen /\ StartRequest(r, body)
ApiEstimate == ApiOpen /\ StartEstimate
ApiEstimateNodes(body) == ApiOpen /\ EstimateNodes(body)
ApiImplementBody(access_token) == ApiOpen /\ StartImplementBody(access_token)
ApiImplementHeader(authHeader) == ApiOpen /\ StartImplementHeader(authHeader)
ApiCreateNode(n, body) == ApiOpen /\ NodeStart(n, body)
ApiCreateWorkflow(w, body) == ApiOpen /\ WorkflowStart(w, body)
ApiMine(w, userId) == ApiOpen /\ MineStart(w, userId)
ApiSubmitQuiz(q, body) == ApiOpen /\ QuizStart(q, body)

NextApi ==
    \/ \E r \in Requests, body \in RequestBodies : ApiValidatePath(r, body)
    \/ \E r \in Requests, ok \in BOOLEAN : DurableRead(r, ok)
    \/ \E r \in Requests : AfterRead(r)
    \/ \E r \in Requests, outcome \in LLMOutcomes : LLMReturn(r, outcome)
    \/ \E r \in Requests, ok \in BOOLEAN : DurableUpsert(r, ok)
    \/ \E r \in Requests : AfterUpsert(r)
    \/ ApiEstimate
    \/ \E body \in NodesBodies : ApiEstimateNodes(body)
    \/ \E access_token \in AccessTokens : ApiImplementBody(access_token)
    \/ \E authHeader \in AuthHeaders : ApiImplementHeader(authHeader)
    \/ \E ok \in BOOLEAN : TokenReturn(ok)
    \/ \E result \in EdgeResults : EdgesReturn(result)
    \/ EstimatorReturn
    \/ \E events \in EventCounts, ok \in BOOLEAN : CalendarReturn(events, ok)
    \/ \E n \in NodeRequests, body \in NodeBodies : ApiCreateNode(n, body)
    \/ \E n \in NodeRequests, ok \in BOOLEAN : NodeSelectReturn(n, ok)
    \/ \E n \in NodeRequests, outcome \in NodeCheckOutcomes : NodeCheckReturn(n, outcome)
    \/ \E n \in NodeRequests, ok \in BOOLEAN : NodeInsertReturn(n, ok)
    \/ \E w \in WorkflowRequests, body \in WorkflowBodies : ApiCreateWorkflow(w, body)
    \/ \E w \in WorkflowRequests, ok \in BOOLEAN : WorkflowInsertReturn(w, ok)
    \/ \E w \in WorkflowRequests, ok \in BOOLEAN : WorkflowEdgesReturn(w, ok)
    \/ \E w \in WorkflowRequests, userId \in UserIdHeaders : ApiMine(w, userId)
    \/ \E w \in WorkflowRequests, ok \in BOOLEAN : MineSelectReturn(w, ok)
    \/ \E q \in QuizRequests, body \in QuizBodies : ApiSubmitQuiz(q, body)
    \/ \E q \in QuizRequests, ok \in BOOLEAN : QuizSelectReturn(q, ok)
    \/ \E q \in QuizRequests, ok \in BOOLEAN : QuizProfileReturn(q, ok)
    \/ \E q \in QuizRequests, ok \in BOOLEAN : QuizUpdateReturn(q, ok)

SpecApi == Init /\ [][NextApi]_vars

\* ------------------------------------------------------ GET /workflows/:id
\* rows of workflow_edges in the order of their node ids
RECURSIVE EdgesInOrder(_)
EdgesInOrder(rows) ==
    IF rows = {} THEN << >>
    ELSE LET first == CHOOSE row \in rows : \A other \in rows :
                         \/ row.source_node_id < other.source_node_id
                         \/ /\ row.source_node_id = other.source_node_id
                            /\ row.target_node_id <= other.target_node_id
         IN <<first>> \o EdgesInOrder(rows \ {first})

\* source_node:source_node_id (*): the row of learning_nodes the edge refers to
EmbeddedNode(id) ==
    IF \E row \in learning_nodes : row.id = id
    THEN CHOOSE row \in learning_nodes : row.id = id
    ELSE NullData

\* the row of an edge as the select returns it
EdgeWithNodes(edge) ==
    WithField(WithField(edge, "source_node", EmbeddedNode(edge.source_node_id)),
              "target_node", EmbeddedNode(edge.target_node_id))

\* .from('workflow_edges').select(`*, source_node:..., target_node:...`)
\* .eq('workflow_id', id), and edges || []
SelectEdges(id, ok) ==
    IF ok
    THEN LET rows == EdgesInOrder({ edge \in workflow_edges : edge.workflow_id = id })
         IN [i \in DOMAIN rows |-> EdgeWithNodes(rows[i])]
    ELSE << >>

\* sourceNode?.title
HasTitle(node) == "title" \in DOMAIN node /\ ~Falsy(node.title)

\* a plausible slip: the spread of the edge after the members of the
\* validation, the edge's own validation_reason winning
EnrichEdgeKeepReason(edge, validation) ==
    IF validation = NullData THEN edge
    ELSE WithField(WithField(edge, "is_valid", validation.is_valid),
                   "recommendation", validation.recommendation)

\* if (validation) return { ...edge, is_valid, validation_reason,
\* recommendation }; return edge
EnrichEdge(edge, validation) ==
    IF validation = NullData THEN edge
    ELSE WithField(WithField(WithField(edge, "is_valid", validation.is_valid),
                             "validation_reason", validation.validation_reason),
                   "recommendation", validation.recommendation)

\* req.params.id
WorkflowIds == 1..3

\* GET /workflows/:id up to its first await
DetailStart(id, userId) ==
    /\ dreq.pc = "idle"
    /\ dreq' = [dreq EXCEPT !.pc = "workflow", !.id = id, !.userId = userId]
    /\ UNCHANGED otherThanDetail

\* the select of the workflow returns
DetailWorkflowReturn(ok) ==
    /\ dreq.pc = "workflow"
    /\ LET rows == { row \in workflows : row.id = dreq.id }
       IN IF ~ok \/ rows = {}
          THEN dreq' = [dreq EXCEPT !.pc = "done",
                                    !.response = [status |-> 404, success |-> FALSE]]
          ELSE dreq' = [dreq EXCEPT !.pc = "edges",
                                    !.workflow = CHOOSE row \in rows : TRUE]
    /\ UNCHANGED otherThanDetail

\* the select of the edges returns: the callback of map runs for every edge
\* up to its await, and returns at once the edge that lacks a title
DetailEdgesReturn(ok) ==
    /\ dreq.pc = "edges"
    /\ LET edges == SelectEdges(dreq.id, ok)
       IN dreq' = [dreq EXCEPT
             !.pc = "enrich",
             !.edges = edges,
             !.edgesRead = ok,
             !.enrichedEdges = edges,
             !.awaited = { i \in DOMAIN edges :
                             HasTitle(edges[i].source_node) /\ HasTitle(edges[i].target_node) }]
    /\ UNCHANGED otherThanDetail

\* the lookup of one edge in node_pair_validations returns
DetailValidationReturn(i, ok) ==
    /\ dreq.pc = "enrich"
    /\ i \in dreq.awaited
    /\ LET edge == dreq.edges[i]
           validation == SelectSingle(durable, edge.source_node.title,
                                      edge.target_node.title, ok)
       IN dreq' = [dreq EXCEPT
             !.awaited = @ \ {i},
             !.lookedUp = IF ok THEN @ \cup {i} ELSE @,
             !.enrichedEdges = [@ EXCEPT ![i] = EnrichEdge(edge, validation)]]
    /\ UNCHANGED otherThanDetail

\* res.json(...)
DetailResponse(request, hasStarred) ==
    [ status |-> 200, success |-> TRUE,
      data |-> WithField(WithField(WithField(request.workflow,
                                             "edges", request.enrichedEdges),
                                   "hasStarred", hasStarred),
                         "isOwner", request.workflow.user_id = request.userId) ]

\* Promise.all resolves; without a user id the handler answers
DetailEnriched ==
    /\ dreq.pc = "enrich"
    /\ dreq.awaited = {}
    /\ IF dreq.userId = 0
       THEN dreq' = [dreq EXCEPT !.pc = "done", !.response = DetailResponse(dreq, FALSE)]
       ELSE dreq' = [dreq EXCEPT !.pc = "star"]
    /\ UNCHANGED otherThanDetail

\* the select of the user's star returns
DetailStarReturn(ok) ==
    /\ dreq.pc = "star"
    /\ LET hasStarred == ok /\ \E star \in workflow_stars :
                                 star.workflow_id = dreq.id /\ star.user_id = dreq.userId
       IN dreq' = [dreq EXCEPT !.pc = "done", !.hasStarred = hasStarred,
                               !.response = DetailResponse(dreq, hasStarred)]
    /\ UNCHANGED otherThanDetail

DetailStep ==
    \/ \E id \in WorkflowIds, userId \in UserIdHeaders : DetailStart(id, userId)
    \/ \E ok \in BOOLEAN : DetailWorkflowReturn(ok)
    \/ \E ok \in BOOLEAN : DetailEdgesReturn(ok)
    \/ \E i \in 1..MaxDetailEdges, ok \in BOOLEAN : DetailValidationReturn(i, ok)
    \/ DetailEnriched
    \/ \E ok \in BOOLEAN : DetailStarReturn(ok)

\* The stores a read finds: two workflows of two users, edges between the
\* nodes of the topic, one of them with a validation_reason of its own,
\* validation records for some of the title pairs, and a star.
StoredWorkflows ==
    { WorkflowRow(1, [user_id |-> 1, topic_id |-> 1, title |-> Py, is_public |-> TRUE]),
      WorkflowRow(2, [user_id |-> 9, topic_id |-> 1, title |-> Sq]) }

StoredEdges ==
    EdgeData(1, << <<1, 2, "client-reason">>, <<3, 2>>, <<2, 1>> >>)
        \cup EdgeData(2, << <<1, 2>> >>)

StoredValidations ==
    { ValidationRow(Py, Sq, JsonParse(<<"{", "F", "}">>)),
      ValidationRow(py, Sq, JsonParse(<<"{", "T", "}">>)) }

StoredStars == { [id |-> 0, workflow_id |-> 1, user_id |-> 9] }

StoredInit(validations, edges, stars) ==
    /\ now = 0
    /\ ticks = 0
    /\ durable = validations
    /\ validationCache = << >>
    /\ pc = [r \in Requests |-> "idle"]
    /\ req = [r \in Requests |-> InitReq]
    /\ conv = [c \in ConvEdges |-> InitConv]
    /\ lastApplied = << >>
    /\ vpc = "call" /\ voutcome = LLMError /\ vreturn = NullData
    /\ InitEstimate
    /\ IdleEstimator
    /\ IdleSchedule
    /\ IdleCalendar
    /\ IdleDuplicate
    /\ learning_nodes = NodeRows
    /\ nreq = [n \in NodeRequests |-> InitNodeReq]
    /\ workflows = StoredWorkflows
    /\ workflow_edges = edges
    /\ wreq = [w \in WorkflowRequests |-> InitWorkflowReq]
    /\ InitQuiz
    /\ workflow_stars = stars
    /\ sreq = [s \in StarRequests |-> InitStarReq]
    /\ InitDetail
    /\ InitConvert

InitStored ==
    \E validations \in SUBSET StoredValidations, edges \in SUBSET StoredEdges,
       stars \in SUBSET StoredStars : StoredInit(validations, edges, stars)

NextDetail == DetailStep

SpecDetail == InitStored /\ [][NextDetail]_vars

\* --------------------- the implement route's call of generateLearningSchedule
\* req.body.daily_hours: 0 when the member is missing
DailyHoursBodies == {0, -1, 1, 2}

\* what the completions call of the estimator does: it fails, or answers
\* with one of the bodies in braces
ImplementOutcomes == {LLMError} \cup { <<"{", body, "}">> : body \in DOMAIN EstimateBodies }

\* daily_hours || schedule.suggestedDailyHours
DailyHoursArgument(daily_hours, estimate) ==
    IF daily_hours # 0 THEN daily_hours ELSE estimate.suggestedDailyHours

\* generateLearningSchedule(schedule.nodes, startDate, daily_hours ||
\* schedule.suggestedDailyHours) at its first statement
InitImplementSchedule ==
    /\ InitPath
    /\ vpc = "call" /\ voutcome = LLMError /\ vreturn = NullData
    /\ InitEstimate
    /\ IdleEstimator
    /\ IdleCalendar
    /\ IdleDuplicate
    /\ InitApi
    /\ \E nodes \in NodeLists, outcome \in ImplementOutcomes,
          daily_hours \in DailyHoursBodies, startDate \in StartDates :
          LET estimate == estimateWorkflowTime(nodes, outcome)
          IN schedule = CallOfSchedule(estimate.nodes, startDate,
                                       DailyHoursArgument(daily_hours, estimate))

\* the generator runs on: a step that can be taken is taken
SpecImplementSchedule ==
    InitImplementSchedule /\ [][NextSchedule]_vars /\ WF_vars(NextSchedule)

\* ------------------------------- POST and DELETE /workflows/:id/star
\* The x-user-id header (or body.user_id) of a star request: absent (uuid 0),
\* or the text of a user's UUID, in lower case as the store prints it or in
\* upper case. user_id is a UUID column: the store reads either text as the
\* same value.
StarUserIds ==
    { [uuid |-> 0],
      [uuid |-> 1, upper |-> FALSE], [uuid |-> 1, upper |-> TRUE],
      [uuid |-> 9, upper |-> FALSE] }

\* workflow?.user_id === userId: equality of the two texts
SameText(user_id, userId) == userId.uuid = user_id /\ ~userId.upper

\* POST /workflows/:id/star up to its first await
StarStart(s, id, userId) ==
    /\ sreq[s].pc = "idle"
    /\ \A r \in 1..(s - 1) : sreq[r].pc # "idle"
    /\ IF userId.uuid = 0
       THEN sreq' = [sreq EXCEPT ![s] =
                [@ EXCEPT !.pc = "done", !.endpoint = "star", !.id = id, !.userId = userId,
                          !.response = [status |-> 401, success |-> FALSE,
                                        error |-> "User ID required"]]]
       ELSE sreq' = [sreq EXCEPT ![s] =
                [@ EXCEPT !.pc = "owner", !.endpoint = "star", !.id = id, !.userId = userId,
                          !.log = <<"select">>]]
    /\ UNCHANGED <<workflow_stars, otherThanStars>>

\* the select of the workflow's owner returns; its data is null when the
\* select fails or finds no row
StarOwnerReturn(s, ok) ==
    /\ sreq[s].pc = "owner"
    /\ LET rows == { row \in workflows : row.id = sreq[s].id }
       IN IF ok /\ \E row \in rows : SameText(row.user_id, sreq[s].userId)
          THEN sreq' = [sreq EXCEPT ![s] =
                   [@ EXCEPT !.pc = "done", !.ownerRead = ok,
                             !.response = [status |-> 400, success |-> FALSE,
                                           error |-> "Cannot star own workflow"]]]
          ELSE sreq' = [sreq EXCEPT ![s] =
                   [@ EXCEPT !.pc = "insert", !.ownerRead = ok,
                             !.log = Append(@, "insert")]]
    /\ UNCHANGED <<workflow_stars, otherThanStars>>

\* the insert into workflow_stars returns: it fails when the store is out of
\* reach or the workflow does not exist, and with code 23505 when the pair
\* (workflow_id, user_id) has a row
StarInsertReturn(s, ok) ==
    /\ sreq[s].pc = "insert"
    /\ LET held == \E star \in workflow_stars :
                       /\ star.workflow_id = sreq[s].id
                       /\ star.user_id = sreq[s].userId.uuid
           exists == \E row \in workflows : row.id = sreq[s].id
       IN IF ok /\ held
          THEN /\ sreq' = [sreq EXCEPT ![s] =
                     [@ EXCEPT !.pc = "done", !.heldAtInsert = TRUE,
                               !.response = [status |-> 400, success |-> FALSE,
                                             error |-> "Already starred"]]]
               /\ UNCHANGED workflow_stars
          ELSE IF ~ok \/ ~exists
          THEN /\ sreq' = [sreq EXCEPT ![s] =
                     [@ EXCEPT !.pc = "done",
                               !.response = [status |-> 500, success |-> FALSE,
                                             error |-> "error.message"]]]
               /\ UNCHANGED workflow_stars
          ELSE /\ workflow_stars' = workflow_stars \cup
                     { [id |-> s, workflow_id |-> sreq[s].id,
                        user_id |-> sreq[s].userId.uuid] }
               /\ sreq' = [sreq EXCEPT ![s] =
                     [@ EXCEPT !.pc = "done", !.inserted = TRUE,
                               !.response = [status |-> 200, success |-> TRUE]]]
    /\ UNCHANGED otherThanStars

\* DELETE /workflows/:id/star up to its first await
UnstarStart(s, id, userId) ==
    /\ sreq[s].pc = "idle"
    /\ \A r \in 1..(s - 1) : sreq[r].pc # "idle"
    /\ IF userId.uuid = 0
       THEN sreq' = [sreq EXCEPT ![s] =
                [@ EXCEPT !.pc = "done", !.endpoint = "unstar", !.id = id,
                          !.userId = userId,
                          !.response = [status |-> 401, success |-> FALSE,
                                        error |-> "User ID required"]]]
       ELSE sreq' = [sreq EXCEPT ![s] =
                [@ EXCEPT !.pc = "delete", !.endpoint = "unstar", !.id = id,
                          !.userId = userId, !.log = <<"delete">>]]
    /\ UNCHANGED <<workflow_stars, otherThanStars>>

\* the delete returns
UnstarDeleteReturn(s, ok) ==
    /\ sreq[s].pc = "delete"
    /\ IF ok
       THEN /\ workflow_stars' =
                  { star \in workflow_stars :
                      ~(star.workflow_id = sreq[s].id
                            /\ star.user_id = sreq[s].userId.uuid) }
            /\ sreq' = [sreq EXCEPT ![s] =
                  [@ EXCEPT !.pc = "done",
                            !.response = [status |-> 200, success |-> TRUE]]]
       ELSE /\ sreq' = [sreq EXCEPT ![s] =
                  [@ EXCEPT !.pc = "done",
                            !.response = [status |-> 500, success |-> FALSE,
                                          error |-> "error.message"]]]
            /\ UNCHANGED workflow_stars
    /\ UNCHANGED otherThanStars

StarStep ==
    \/ \E s \in StarRequests, id \in WorkflowIds, userId \in StarUserIds :
          StarStart(s, id, userId)
    \/ \E s \in StarRequests, ok \in BOOLEAN : StarOwnerReturn(s, ok)
    \/ \E s \in StarRequests, ok \in BOOLEAN : StarInsertReturn(s, ok)
    \/ \E s \in StarRequests, id \in WorkflowIds, userId \in StarUserIds :
          UnstarStart(s, id, userId)
    \/ \E s \in StarRequests, ok \in BOOLEAN : UnstarDeleteReturn(s, ok)

InitStarred == StoredInit({}, {}, {})

NextStars == StarStep

SpecStars == InitStarred /\ [][NextStars]_vars

\* --------------------------------- POST /topics/:topicId/convert-to-workflow
\* req.params.topicId: a topic, and an id without a topic
TopicIds == {1, 2}

\* What the completions call of extractNodesFromTopic does: it fails, or
\* answers with a text; the token "N" is the body of one conversion, two
\* nodes and the edge between them, "x" any other text.
ConversionOutcomes ==
    { LLMError, <<"x">>, <<"{", "N", "}">>, <<"{", "}">>, <<"{", "x", "}">> }

\* `Pengenalan ${topicTitle}` and the other two titles
createDefaultTopicConversion(topicTitle) ==
    [ nodes |-> << <<"Pengenalan", " ">> \o topicTitle,
                   <<"Praktik", " ">> \o topicTitle,
                   <<"Pendalaman", " ">> \o topicTitle >>,
      edges |-> << [from |-> 0, to |-> 1], [from |-> 1, to |-> 2] >> ]

\* extractNodesFromTopic, from the outcome of its completions call to the
\* value it returns
extractNodesFromTopic(topicTitle, outcome) ==
    IF outcome = LLMError THEN createDefaultTopicConversion(topicTitle)
    ELSE LET m == JsonMatch(outcome)
         IN IF m = NoMatch THEN createDefaultTopicConversion(topicTitle)
            ELSE IF m = <<"{", "}">> THEN EmptyObject
            ELSE IF m = <<"{", "N", "}">>
            THEN [ nodes |-> <<Py, Sq>>, edges |-> << [from |-> 0, to |-> 1] >> ]
            ELSE createDefaultTopicConversion(topicTitle)

\* what the completions call of a validation does
ConvertValidationOutcomes == { LLMError, <<"{", "F", "}">> }

\* the record of one response
ConvertAnswer(request, response) ==
    [request EXCEPT !.pc = "done", !.response = response]

ConvertFailure(request, status) ==
    ConvertAnswer(request, [status |-> status, success |-> FALSE])

\* the handler up to its first await
ConvertStart(c, topicId, userId) ==
    /\ creq[c].pc = "idle"
    /\ \A b \in 1..(c - 1) : creq[b].pc # "idle"
    /\ LET request == [creq[c] EXCEPT !.topicId = topicId, !.userId = userId]
       IN IF userId = 0
          THEN creq' = [creq EXCEPT ![c] = ConvertFailure(request, 401)]
          ELSE creq' = [creq EXCEPT ![c] =
                   [request EXCEPT !.pc = "topic", !.log = <<"selectTopic">>]]
    /\ UNCHANGED <<topics, learning_nodes, workflows, workflow_edges, durable,
                   otherThanConvert>>

\* topic.is_converted && topic.converted_workflow_id
IsConverted(topic) == topic.is_converted /\ topic.converted_workflow_id # 0

\* the select of the topic returns
ConvertTopicReturn(c, ok) ==
    /\ creq[c].pc = "topic"
    /\ LET rows == { row \in topics : row.id = creq[c].topicId }
       IN IF ~ok \/ rows = {}
          THEN creq' = [creq EXCEPT ![c] = ConvertFailure(creq[c], 404)]
          ELSE LET topic == CHOOSE row \in rows : TRUE
               IN creq' = [creq EXCEPT ![c] =
                     IF IsConverted(topic)
                     THEN [@ EXCEPT !.pc = "existing", !.topic = topic,
                                    !.convertedAtRead =
                                        \E row \in workflows :
                                            row.id = topic.converted_workflow_id,
                                    !.log = Append(@, "selectWorkflow")]
                     ELSE [@ EXCEPT !.pc = "extract", !.topic = topic,
                                    !.log = Append(@, "llm")]]
    /\ UNCHANGED <<topics, learning_nodes, workflows, workflow_edges, durable,
                   otherThanConvert>>

\* the select of the converted workflow returns: without its row the handler
\* goes on to the conversion
ConvertExistingReturn(c, ok) ==
    /\ creq[c].pc = "existing"
    /\ LET rows == { row \in workflows : row.id = creq[c].topic.converted_workflow_id }
       IN creq' = [creq EXCEPT ![c] =
             IF ok /\ rows # {}
             THEN [@ EXCEPT !.pc = "cachedEdges", !.workflow = CHOOSE row \in rows : TRUE,
                            !.existingRead = TRUE,
                            !.log = Append(@, "selectEdges")]
             ELSE [@ EXCEPT !.pc = "extract", !.existingRead = ok,
                            !.log = Append(@, "llm")]]
    /\ UNCHANGED <<topics, learning_nodes, workflows, workflow_edges, durable,
                   otherThanConvert>>

\* the select of the edges of the converted workflow returns
ConvertCachedEdgesReturn(c, ok) ==
    /\ creq[c].pc = "cachedEdges"
    /\ creq' = [creq EXCEPT ![c] =
          ConvertAnswer(creq[c],
              [ status |-> 200, success |-> TRUE, fromCache |-> TRUE,
                data |-> WithField(creq[c].workflow, "edges",
                                   SelectEdges(creq[c].workflow.id, ok)) ])]
    /\ UNCHANGED <<topics, learning_nodes, workflows, workflow_edges, durable,
                   otherThanConvert>>

\* extractNodesFromTopic returns; conversionResult.nodes.map throws for a
\* result without nodes
ConvertExtractReturn(c, outcome) ==
    /\ creq[c].pc = "extract"
    /\ LET conversionResult == extractNodesFromTopic(creq[c].topic.title, outcome)
       IN creq' = [creq EXCEPT ![c] =
             IF "nodes" \notin DOMAIN conversionResult
             THEN ConvertFailure([@ EXCEPT !.conversionResult = conversionResult], 500)
             ELSE [@ EXCEPT !.pc = "nodes", !.conversionResult = conversionResult,
                            !.log = Append(@, "insertNodes")]]
    /\ UNCHANGED <<topics, learning_nodes, workflows, workflow_edges, durable,
                   otherThanConvert>>

\* the rows of the nodes, with the ids the store gives them
NodeData(topicId, titles, rows) ==
    [i \in DOMAIN titles |->
        [id |-> Cardinality(rows) + i, topic_id |-> topicId, title |-> titles[i]]]

\* the insert of the nodes returns
ConvertNodesReturn(c, ok) ==
    /\ creq[c].pc = "nodes"
    /\ IF ~ok
       THEN /\ creq' = [creq EXCEPT ![c] = ConvertFailure(creq[c], 500)]
            /\ UNCHANGED learning_nodes
       ELSE LET createdNodes == NodeData(creq[c].topicId, creq[c].conversionResult.nodes,
                                         learning_nodes)
            IN /\ learning_nodes' = learning_nodes \cup Range(createdNodes)
               /\ creq' = [creq EXCEPT ![c] =
                     [@ EXCEPT !.pc = "workflow", !.createdNodes = createdNodes,
                               !.created = @ \cup {"learning_nodes"},
                               !.log = Append(@, "insertWorkflow")]]
    /\ UNCHANGED <<topics, workflows, workflow_edges, durable, otherThanConvert>>

\* `Learning Path: ${topic.title}`
ConvertedWorkflow(id, userId, topic) ==
    [ id |-> id, user_id |-> userId, topic_id |-> topic.id,
      title |-> <<"Learning Path: ">> \o topic.title,
      is_public |-> FALSE, is_draft |-> FALSE ]

\* conversionResult.edges && conversionResult.edges.length > 0
HasConversionEdges(conversionResult) ==
    "edges" \in DOMAIN conversionResult /\ Len(conversionResult.edges) > 0

\* the insert of the workflow returns: with edges, the callback of map runs
\* for every edge up to its lookup; without, the topic is updated
ConvertWorkflowReturn(c, ok) ==
    /\ creq[c].pc = "workflow"
    /\ IF ~ok
       THEN /\ creq' = [creq EXCEPT ![c] = ConvertFailure(creq[c], 500)]
            /\ UNCHANGED workflows
       ELSE LET workflow == ConvertedWorkflow(Cardinality(workflows) + 1,
                                              creq[c].userId, creq[c].topic)
                edges == creq[c].conversionResult.edges
            IN /\ workflows' = workflows \cup {workflow}
               /\ creq' = [creq EXCEPT ![c] =
                     IF HasConversionEdges(creq[c].conversionResult)
                     THEN [@ EXCEPT !.pc = "validate", !.workflow = workflow,
                                    !.created = @ \cup {"workflows"},
                                    !.tasks = [e \in DOMAIN edges |->
                                                  [pc |-> "lookup", validation |-> NullData]],
                                    !.log = Append(@, "selectValidations")]
                     ELSE [@ EXCEPT !.pc = "update", !.workflow = workflow,
                                    !.created = @ \cup {"workflows"},
                                    !.log = Append(@, "updateTopic")]]
    /\ UNCHANGED <<topics, learning_nodes, workflow_edges, durable, otherThanConvert>>

\* createdNodes[edge.from] and createdNodes[edge.to]
SourceNode(request, e) == request.createdNodes[request.conversionResult.edges[e].from + 1]
TargetNode(request, e) == request.createdNodes[request.conversionResult.edges[e].to + 1]

\* Promise.all resolves when the callback of every edge has returned: the
\* insert of the edges is issued
AfterTask(request) ==
    IF \A e \in DOMAIN request.tasks : request.tasks[e].pc = "done"
    THEN [request EXCEPT !.pc = "edges", !.log = Append(@, "insertEdges")]
    ELSE request

\* the lookup of one edge in node_pair_validations returns
ConvertLookupReturn(c, e, ok) ==
    /\ creq[c].pc = "validate"
    /\ e \in DOMAIN creq[c].tasks
    /\ creq[c].tasks[e].pc = "lookup"
    /\ LET cachedValidation == SelectSingle(durable, SourceNode(creq[c], e).title,
                                            TargetNode(creq[c], e).title, ok)
       IN creq' = [creq EXCEPT ![c] =
             IF cachedValidation = NullData
             THEN [@ EXCEPT !.tasks[e].pc = "llm", !.log = Append(@, "llm")]
             ELSE AfterTask([@ EXCEPT !.tasks[e].pc = "done"])]
    /\ UNCHANGED <<topics, learning_nodes, workflows, workflow_edges, durable,
                   otherThanConvert>>

\* validateLearningPath returns for one edge
ConvertValidationReturn(c, e, outcome) ==
    /\ creq[c].pc = "validate"
    /\ e \in DOMAIN creq[c].tasks
    /\ creq[c].tasks[e].pc = "llm"
    /\ creq' = [creq EXCEPT ![c] =
          [@ EXCEPT !.tasks[e] = [pc |-> "upsert",
                                  validation |-> validateLearningPath(outcome).result]]]
    /\ UNCHANGED <<topics, learning_nodes, workflows, workflow_edges, durable,
                   otherThanConvert>>

\* the upsert of one edge's validation returns; its error is not looked at
ConvertUpsertReturn(c, e, ok) ==
    /\ creq[c].pc = "validate"
    /\ e \in DOMAIN creq[c].tasks
    /\ creq[c].tasks[e].pc = "upsert"
    /\ durable' =
          IF ok
          THEN Upsert(durable, ValidationRow(SourceNode(creq[c], e).title,
                                             TargetNode(creq[c], e).title,
                                             creq[c].tasks[e].validation))
          ELSE durable
    /\ creq' = [creq EXCEPT ![c] =
          AfterTask([@ EXCEPT !.tasks[e].pc = "done",
                              !.created = IF ok THEN @ \cup {"node_pair_validations"}
                                          ELSE @])]
    /\ UNCHANGED <<topics, learning_nodes, workflows, workflow_edges, otherThanConvert>>

\* the rows the callbacks return
ConvertedEdges(request) ==
    { [ workflow_id |-> request.workflow.id,
        source_node_id |-> SourceNode(request, e).id,
        target_node_id |-> TargetNode(request, e).id,
        validation_reason |-> Null ] : e \in DOMAIN request.tasks }

\* the insert of the edges returns; its error is not looked at
ConvertEdgesReturn(c, ok) ==
    /\ creq[c].pc = "edges"
    /\ workflow_edges' =
          IF ok THEN workflow_edges \cup ConvertedEdges(creq[c]) ELSE workflow_edges
    /\ creq' = [creq EXCEPT ![c] =
          [@ EXCEPT !.pc = "update",
                    !.created = IF ok THEN @ \cup {"workflow_edges"} ELSE @,
                    !.log = Append(@, "updateTopic")]]
    /\ UNCHANGED <<topics, learning_nodes, workflows, durable, otherThanConvert>>

\* the update of the topic returns; its error is not looked at
ConvertUpdateReturn(c, ok) ==
    /\ creq[c].pc = "update"
    /\ topics' =
          IF ok
          THEN { IF row.id = creq[c].topicId
                 THEN [row EXCEPT !.is_converted = TRUE,
                                  !.converted_workflow_id = creq[c].workflow.id]
                 ELSE row : row \in topics }
          ELSE topics
    /\ creq' = [creq EXCEPT ![c] =
          [@ EXCEPT !.pc = "fetch", !.log = Append(@, "selectEdges")]]
    /\ UNCHANGED <<learning_nodes, workflows, workflow_edges, durable, otherThanConvert>>

\* the select of the edges of the new workflow returns
ConvertFetchReturn(c, ok) ==
    /\ creq[c].pc = "fetch"
    /\ creq' = [creq EXCEPT ![c] =
          ConvertAnswer(creq[c],
              [ status |-> 200, success |-> TRUE, fromCache |-> FALSE,
                data |-> WithField(creq[c].workflow, "edges",
                                   SelectEdges(creq[c].workflow.id, ok)) ])]
    /\ UNCHANGED <<topics, learning_nodes, workflows, workflow_edges, durable,
                   otherThanConvert>>

\* edges of one conversion
ConversionEdges == 1..MaxConversionEdges

ConvertStep ==
    \/ \E c \in ConvertRequests, topicId \in TopicIds, userId \in UserIdHeaders :
          ConvertStart(c, topicId, userId)
    \/ \E c \in ConvertRequests, ok \in BOOLEAN : ConvertTopicReturn(c, ok)
    \/ \E c \in ConvertRequests, ok \in BOOLEAN : ConvertExistingReturn(c, ok)
    \/ \E c \in ConvertRequests, ok \in BOOLEAN : ConvertCachedEdgesReturn(c, ok)
    \/ \E c \in ConvertRequests, outcome \in ConversionOutcomes :
          ConvertExtractReturn(c, outcome)
    \/ \E c \in ConvertRequests, ok \in BOOLEAN : ConvertNodesReturn(c, ok)
    \/ \E c \in ConvertRequests, ok \in BOOLEAN : ConvertWorkflowReturn(c, ok)
    \/ \E c \in ConvertRequests, e \in ConversionEdges, ok \in BOOLEAN :
          ConvertLookupReturn(c, e, ok)
    \/ \E c \in ConvertRequests, e \in ConversionEdges,
          outcome \in ConvertValidationOutcomes : ConvertValidationReturn(c, e, outcome)
    \/ \E c \in ConvertRequests, e \in ConversionEdges, ok \in BOOLEAN :
          ConvertUpsertReturn(c, e, ok)
    \/ \E c \in ConvertRequests, ok \in BOOLEAN : ConvertEdgesReturn(c, ok)
    \/ \E c \in ConvertRequests, ok \in BOOLEAN : ConvertUpdateReturn(c, ok)
    \/ \E c \in ConvertRequests, ok \in BOOLEAN : ConvertFetchReturn(c, ok)

NextConvert == ConvertStep

SpecConvert == Init /\ [][NextConvert]_vars

\* ================================================================== claims

Key(r) == getCacheKey(req[r].sourceName, req[r].targetName)

SameBody(r1, r2) ==
    req[r1].from_node = req[r2].from_node /\ req[r1].to_node = req[r2].to_node

\* the answer carries the flag
Flag(response, field) == field \in DOMAIN response /\ response[field] = TRUE

\* the request answered with a verdict it had the LLM validator compute
Fresh(r) ==
    Done(r) /\ req[r].response.status = 200 /\ "llmCall" \in Range(req[r].log)

\* ... and its durable upsert was applied
Stored(r) == Fresh(r) /\ ~req[r].dbError

MissOrder == <<"dbRead", "cacheRead", "llmCall", "upsert", "cacheWrite", "respond">>

IsPrefix(s, t) == Len(s) <= Len(t) /\ s = SubSeq(t, 1, Len(s))

C3_MissOrder ==
    \A r \in Requests :
        "llmCall" \in Range(req[r].log) =>
            /\ IsPrefix(req[r].log, MissOrder)
            /\ Done(r) => req[r].log = MissOrder
            /\ pc[r] = "afterUpsert" => req[r].log = SubSeq(MissOrder, 1, 4)
            /\ req[r].response # NoResponse => Done(r)

C3_Witness ==
    \E r \in Requests :
        Done(r) /\ "llmCall" \in Range(req[r].log) /\ req[r].response.status = 200

\* C4: the volatile read of a request returns the stored entry exactly when
\* its age is at most CACHE_TTL, leaving the Map as it is; on an older entry
\* it deletes the entry and the request goes on to the LLM validator.
C4_TtlRead ==
    [][ \A r \in Requests :
          (pc[r] = "afterRead" /\ pc'[r] # "afterRead" /\ req[r].cachedValidation = NullData) =>
             IF Key(r) \in DOMAIN validationCache
             THEN IF now - validationCache[Key(r)].timestamp <= CACHE_TTL
                  THEN /\ pc'[r] = "done"
                       /\ req'[r].response =
                              WithField(validationCache[Key(r)].result, "fromCache", TRUE)
                       /\ validationCache' = validationCache
                  ELSE /\ pc'[r] = "llm"
                       /\ Key(r) \notin DOMAIN validationCache'
             ELSE pc'[r] = "llm" /\ validationCache' = validationCache
      ]_vars

\* a request waits for the LLM after its read evicted the entry another
\* request had written
C4_Witness ==
    \E r, q \in Requests :
        /\ pc[r] = "llm" /\ Fresh(q) /\ q \in req[r].doneBefore
        /\ Key(q) = Key(r)
        /\ Key(r) \notin DOMAIN validationCache
        /\ now > CACHE_TTL

\* C5: when the durable upsert fails, the handler still answers with success
\* and the validator's verdict, and writes that answer to the volatile cache.
C5_UpsertFailureServed ==
    [][ \A r \in Requests :
          (pc[r] = "afterUpsert" /\ req[r].dbError /\ pc'[r] # "afterUpsert") =>
             /\ pc'[r] = "done"
             /\ req'[r].response.status = 200
             /\ req'[r].response.success = TRUE
             /\ req'[r].response.isValid = req[r].validation.isValid
             /\ req'[r].response.reason = req[r].validation.reason
             /\ Key(r) \in DOMAIN validationCache'
             /\ validationCache'[Key(r)] = [result |-> req'[r].response, timestamp |-> now]
      ]_vars

C5_Witness ==
    \E r \in Requests :
        /\ Fresh(r) /\ req[r].dbError
        /\ req[r].response.isValid = FALSE
        /\ durable = {}

\* C7: whatever requests and conversions raced, the store holds for every
\* pair some upsert was applied to exactly one record, with the verdict of the
\* upsert applied last.
C7_LastWriteWins ==
    \A pair \in DOMAIN lastApplied :
        LET rows == { row \in durable :
                        row.source_name = pair[1] /\ row.target_name = pair[2] }
        IN /\ Cardinality(rows) = 1
           /\ \A row \in rows : row.is_valid = lastApplied[pair].isValid

\* two requests of one pair both missed both caches, both called the LLM and
\* both had their upsert applied, with different verdicts
C7_Witness ==
    \E r1, r2 \in Requests :
        /\ r1 # r2 /\ Stored(r1) /\ Stored(r2)
        /\ req[r1].sourceName = req[r2].sourceName
        /\ req[r1].targetName = req[r2].targetName
        /\ req[r1].log = MissOrder /\ req[r2].log = MissOrder
        /\ req[r1].readOk /\ req[r2].readOk
        /\ req[r1].heldAtRead = {} /\ req[r2].heldAtRead = {}
        /\ req[r1].response.isValid # req[r2].response.isValid

\* C8: the store never holds two records of one ordered
\* (source_name, target_name) pair, the names compared as stored.
C8_OneRecordPerPair ==
    \A row1, row2 \in durable :
        (row1.source_name = row2.source_name /\ row1.target_name = row2.target_name)
            => row1 = row2

\* a conversion's upsert replaced the record a validation request had stored,
\* while records of the reversed pair or of another letter case stand beside it
C8_Witness ==
    \E r \in Requests, c \in ConvEdges :
        LET pair == <<req[r].sourceName, req[r].targetName>>
        IN /\ Stored(r)
           /\ pair \in DOMAIN lastApplied
           /\ lastApplied[pair].by = <<"conversion", c>>
           /\ lastApplied[pair].isValid # req[r].response.isValid
           /\ Cardinality(durable) > 1

\* C9: requests whose titles differ only in letter case and surrounding
\* whitespace use one volatile key, while the durable select returns a record
\* only when its names are the trimmed titles letter for letter.
C9_KeyIdentity ==
    /\ \A r1, r2 \in Requests :
          (/\ pc[r1] \notin {"idle"} /\ pc[r2] \notin {"idle"}
           /\ ToLowerCase(Trim(req[r1].from_node)) = ToLowerCase(Trim(req[r2].from_node))
           /\ ToLowerCase(Trim(req[r1].to_node)) = ToLowerCase(Trim(req[r2].to_node)))
              => getCacheKey(req[r1].from_node, req[r1].to_node)
                   = getCacheKey(req[r2].from_node, req[r2].to_node)
    /\ getCacheKey(PyPad, Sq) = getCacheKey(py, Sq)
    /\ \A r \in Requests :
          req[r].cachedValidation # NullData =>
              /\ req[r].cachedValidation.source_name = Trim(req[r].from_node)
              /\ req[r].cachedValidation.target_name = Trim(req[r].to_node)

\* a request for "py" misses the record stored under "Py" by a request for
\* "  Py " and is served that request's volatile entry
C9_Witness ==
    \E r1, r2 \in Requests :
        /\ r1 \in req[r2].doneBefore /\ Stored(r1) /\ Done(r2)
        /\ req[r1].from_node = PyPad /\ req[r2].from_node = py
        /\ req[r1].to_node = req[r2].to_node
        /\ req[r2].readOk /\ req[r2].cachedValidation = NullData
        /\ \E row \in durable : row.source_name = Py /\ row.target_name = req[r2].targetName
        /\ req[r2].response.status = 200 /\ Flag(req[r2].response, "fromCache")

\* C6: validateLearningPath raises nothing to its caller and makes one
\* completions call; when that call fails, when the text holds no "{" with a
\* "}" after it, or when JSON.parse throws on the match, it returns
\* isValid = true with a fallback reason.
C6_FailOpen ==
    vpc = "returned" =>
        /\ vreturn.raised = FALSE
        /\ vreturn.calls = 1
        /\ (\/ voutcome = LLMError
            \/ ~\E i, j \in DOMAIN voutcome :
                   i < j /\ voutcome[i] = "{" /\ voutcome[j] = "}"
            \/ ParseThrows(JsonMatch(voutcome)))
           => /\ vreturn.result.isValid = TRUE
              /\ vreturn.result.reason \in FallbackReasons

\* the validator returned its default on a text whose braces hold no object
C6_Witness ==
    /\ vpc = "returned"
    /\ voutcome # LLMError
    /\ JsonMatch(voutcome) # NoMatch
    /\ ParseThrows(JsonMatch(voutcome))
    /\ vreturn.result = CatchDefault

\* C10: estimateWorkflowTime is never called with an empty node sequence.
C10_NeverEmptyNodes ==
    \A i \in DOMAIN estimatorCalls : estimatorCalls[i].nodes # << >>

\* the completions call failed, or its text holds no "{" with a "}" after it,
\* or JSON.parse throws on what the braces hold
NoParsableObject(outcome) ==
    \/ outcome = LLMError
    \/ ~\E i, j \in DOMAIN outcome : i < j /\ outcome[i] = "{" /\ outcome[j] = "}"
    \/ EstimateParseThrows(JsonMatch(outcome))

\* C11: for a non-empty sequence of N nodes, when the completions call fails or
\* its text has no parsable JSON object, estimateWorkflowTime returns N
\* estimates in input order, each of 5 hours, with suggestedDailyHours = 2,
\* totalHours = 5N and totalDays = ceil(5N / 2).
C11_DefaultEstimate ==
    (/\ estimator.pc = "returned"
     /\ estimator.nodes # << >>
     /\ NoParsableObject(estimator.outcome)) =>
        LET r == estimator.result
            N == Len(estimator.nodes)
        IN /\ Len(r.nodes) = N
           /\ \A i \in 1..N : /\ r.nodes[i].nodeId = estimator.nodes[i]
                              /\ r.nodes[i].estimatedHours = 5
           /\ r.suggestedDailyHours = 2
           /\ r.totalHours = 5 * N
           /\ 2 * r.totalDays \in {5 * N, 5 * N + 1}

\* the default for one node after a text whose braces hold no object: 3 days
C11_Witness ==
    /\ estimator.pc = "returned"
    /\ Len(estimator.nodes) = 1
    /\ estimator.outcome # LLMError
    /\ JsonMatch(estimator.outcome) # NoMatch
    /\ EstimateParseThrows(JsonMatch(estimator.outcome))
    /\ estimator.result.totalDays = 3

RECURSIVE HoursUpTo(_, _)
HoursUpTo(estimates, n) ==
    IF n = 0 THEN 0 ELSE HoursUpTo(estimates, n - 1) + estimates[n].estimatedHours

\* c = ceil(t / d) for d # 0, stated without a division
IsCeil(c, t, d) ==
    IF d > 0 THEN (c - 1) * d < t /\ t <= c * d
    ELSE (c - 1) * d > t /\ t >= c * d

\* C12: in every schedule estimateWorkflowTime returns, totalHours is the sum
\* of the returned estimatedHours and totalDays is
\* ceil(totalHours / suggestedDailyHours), whatever totals the answer held.
C12_TotalsRecomputed ==
    estimator.pc = "returned" =>
        LET r == estimator.result
        IN /\ r.totalHours = HoursUpTo(r.nodes, Len(r.nodes))
           /\ r.suggestedDailyHours # 0
           /\ IsCeil(r.totalDays, r.totalHours, r.suggestedDailyHours)

\* a schedule built from an answer that named totals of its own
C12_Witness ==
    /\ estimator.pc = "returned"
    /\ estimator.outcome # LLMError
    /\ JsonMatch(estimator.outcome) = <<"{", "B1", "}">>
    /\ Len(estimator.nodes) = 2
    /\ estimator.result.totalHours = 7
    /\ estimator.result.totalDays = 3

\* hours of the sessions of node n among the first k events
RECURSIVE AllocatedUpTo(_, _, _)
AllocatedUpTo(events, n, k) ==
    IF k = 0 THEN 0
    ELSE AllocatedUpTo(events, n, k - 1)
            + (IF events[k].node = n THEN events[k].durationHours ELSE 0)

SessionsOf(n) == { k \in DOMAIN schedule.events : schedule.events[k].node = n }

\* C13: for a node with estimatedHours h > 0 and dailyHours d > 0 the
\* generator emits ceil(h / d) sessions on consecutive days, the first on the
\* day the generator stood at (the start date when nothing was emitted
\* before), each of min(d, hours not yet allocated) hours, h hours in all.
C13_NodeSessions ==
    \A n \in DOMAIN schedule.nodes :
        LET h == schedule.nodes[n].estimatedHours
            d == schedule.dailyHours
            S == SessionsOf(n)
        IN (h > 0 /\ d > 0 /\ schedule.node > n) =>
              /\ IsCeil(Cardinality(S), h, d)
              /\ \A k \in S :
                    /\ k - 1 \in DOMAIN schedule.events /\ k - 1 \notin S
                          => \A j \in S : j >= k
                    /\ k - 1 \in S => schedule.events[k].startDate
                                         = schedule.events[k - 1].startDate + 1
                    /\ k = 1 => schedule.events[k].startDate = schedule.startDate
                    /\ schedule.events[k].durationHours
                          = Min(d, h - AllocatedUpTo(schedule.events, n, k - 1))
              /\ AllocatedUpTo(schedule.events, n, Len(schedule.events)) = h

\* 5 hours at 2 a day from day 7: sessions of 2, 2 and 1 hours on days 7, 8, 9
C13_Witness ==
    /\ schedule.pc = "returned"
    /\ Len(schedule.nodes) = 1
    /\ schedule.nodes[1].estimatedHours = 5
    /\ schedule.dailyHours = 2
    /\ schedule.startDate = 7
    /\ [k \in DOMAIN schedule.events |-> schedule.events[k].durationHours] = <<2, 2, 1>>
    /\ [k \in DOMAIN schedule.events |-> schedule.events[k].startDate] = <<7, 8, 9>>

\* C14: the k-th session emitted (k from 0) is dated start + k days, no two
\* sessions share a day, the sessions of a node all precede those of the next
\* node, and the first session of a node is on the day after the last session
\* of the node before it.
C14_Sequential ==
    LET events == schedule.events
    IN /\ \A k \in DOMAIN events : events[k].startDate = schedule.startDate + (k - 1)
       /\ \A j, k \in DOMAIN events :
             j < k => /\ events[j].startDate # events[k].startDate
                      /\ events[j].node <= events[k].node
       /\ \A k \in DOMAIN events :
             (k + 1 \in DOMAIN events /\ events[k].node # events[k + 1].node)
                => events[k + 1].startDate = events[k].startDate + 1

\* the first node ended on a session shorter than the daily budget and the
\* second node began the day after
C14_Witness ==
    /\ schedule.pc = "returned"
    /\ Len(schedule.nodes) = 2
    /\ \E k \in DOMAIN schedule.events :
          /\ k + 1 \in DOMAIN schedule.events
          /\ schedule.events[k].node = 1
          /\ schedule.events[k + 1].node = 2
          /\ schedule.events[k].durationHours < schedule.dailyHours
          /\ schedule.events[k + 1].startDate = schedule.events[k].startDate + 1

\* the remote event created for event k of the list
CreatedFor(k) == { r \in calendar.remote : r.event = k }

\* C15: when the insert of the N-th event fails the exporter raises, has
\* called insert for the events 1..N only, and the N-1 events created before
\* are all in the remote calendar.
C15_FailureAborts ==
    /\ calendar.failed # 0 => calendar.pc = "raised"
    /\ calendar.pc = "raised" =>
          LET N == calendar.failed
          IN /\ N \in DOMAIN calendar.events
             /\ calendar.issued = [i \in 1..N |-> i]
             /\ calendar.inFlight = {}
             /\ \A k \in 1..(N - 1) : Cardinality(CreatedFor(k)) = 1
             /\ Cardinality(calendar.remote) = N - 1

\* the third insert failed: two events stay in the remote calendar
C15_Witness ==
    /\ calendar.pc = "raised"
    /\ calendar.failed = 3
    /\ Cardinality(calendar.remote) = 2
    /\ Len(calendar.eventIds) = 2

\* C16: insert is called once per event, in the order of the list, each call
\* after the one before it was answered, and on success the exporter returns
\* the ids the remote calendar answered, in that order.
C16_OneAtATime ==
    /\ Cardinality(calendar.inFlight) <= 1
    /\ calendar.issued = [i \in 1..Len(calendar.issued) |-> i]
    /\ calendar.inFlight \subseteq {Len(calendar.issued)}
    /\ calendar.pc = "returned" =>
          /\ Len(calendar.issued) = Len(calendar.events)
          /\ \A k \in DOMAIN calendar.events : Cardinality(CreatedFor(k)) = 1
          /\ Len(calendar.eventIds)
                = Cardinality({ r \in calendar.remote : r.answeredId })
          /\ \A i \in DOMAIN calendar.eventIds :
                \E r \in calendar.remote :
                    /\ r.id = calendar.eventIds[i] /\ r.answeredId
                    /\ \A j \in DOMAIN calendar.eventIds : \A q \in calendar.remote :
                          (i < j /\ q.id = calendar.eventIds[j]) => r.event < q.event

\* three events exported, three ids returned
C16_Witness ==
    /\ calendar.pc = "returned"
    /\ Len(calendar.events) = 3
    /\ Len(calendar.eventIds) = 3
    /\ calendar.issued = <<1, 2, 3>>

\* the object the answer held, EmptyObject when it held none
AnswerObject ==
    LET m == JsonMatch(dup.outcome)
    IN IF dup.outcome = LLMError \/ m = NoMatch \/ DuplicateParseThrows(m) THEN EmptyObject
       ELSE DuplicateJsonParse(m)

\* the title an answer that flags a duplicate names as similar, Empty when
\* there is none
ClaimedTitle ==
    IF /\ "isDuplicate" \in DOMAIN AnswerObject /\ AnswerObject.isDuplicate
       /\ "similarNodeTitle" \in DOMAIN AnswerObject
    THEN AnswerObject.similarNodeTitle ELSE Empty

C19_InsertUnlessDuplicate ==
    \A n \in NodeRequests :
        LET r == nreq[n]
            flagged == r.duplicateCheck # NullData /\ r.duplicateCheck.isDuplicate
        IN /\ "insert" \in Range(r.log) => ~flagged
           /\ r.inserted # 0 => ~flagged /\ r.response.status = 200
           /\ flagged =>
                 /\ r.pc = "done"
                 /\ r.response.isDuplicate = TRUE
                 /\ r.response.success = FALSE
                 /\ r.log = <<"select", "llm">>
                 /\ r.inserted = 0
                 /\ \A row \in learning_nodes :
                       row.id > Len(r.existingNodes) => \E m \in NodeRequests \ {n} :
                                                            nreq[m].inserted = row.id
           /\ (r.pc \in {"insert", "done"} /\ r.log # << >>
                    /\ ~r.selectError /\ r.existingNodes = << >>) =>
                 /\ r.log = <<"select", "insert">>
                 /\ (r.pc = "done" /\ r.response.status = 200) =>
                       \E row \in learning_nodes :
                           /\ row.id = r.inserted
                           /\ row.title = r.title /\ row.topic_id = r.topic_id

\* one request inserted "Py" into the empty topic without a completions call,
\* the next was answered that "py" is its duplicate and inserted nothing
C19_Witness ==
    \E n, m \in NodeRequests :
        /\ nreq[n].pc = "done" /\ nreq[n].inserted # 0
        /\ nreq[n].log = <<"select", "insert">>
        /\ nreq[m].pc = "done"
        /\ nreq[m].duplicateCheck # NullData /\ nreq[m].duplicateCheck.isDuplicate
        /\ Flag(nreq[m].response, "isDuplicate")
        /\ "similarNode" \in DOMAIN nreq[m].response
        /\ Cardinality(learning_nodes) = 1

\* the stores, the log of estimator calls and the remote calendar
StoreVars ==
    <<durable, validationCache, learning_nodes, workflows, workflow_edges,
      user_profiles, estimatorCalls, calendar>>

\* a request that begins in this step and is answered 400 in it, having made
\* no call and changed no store
Rejected(before, after) ==
    /\ before.pc = "idle" /\ after.pc = "done"
    /\ after.response.status = 400
    /\ after.log = << >>
    /\ UNCHANGED StoreVars

Begins(before, after) == before.pc = "idle" /\ after.pc # "idle"

\* C17: on validate-path, node creation, workflow creation, estimate-nodes and
\* quiz submit, a request that lacks a required field is answered 400 in the
\* step it arrives in: no call to the store, the LLM or the calendar has been
\* made for it and every store is as it was.
C17_MissingFieldRejected ==
    [][ /\ \A r \in Requests :
              (pc[r] = "idle" /\ pc'[r] # "idle"
                 /\ (req'[r].from_node = Empty \/ req'[r].to_node = Empty)) =>
                  /\ pc'[r] = "done"
                  /\ req'[r].response.status = 400
                  /\ req'[r].log = <<"respond">>
                  /\ UNCHANGED StoreVars
        /\ \A n \in NodeRequests :
              (Begins(nreq[n], nreq'[n])
                 /\ (nreq'[n].topic_id = 0 \/ nreq'[n].title = Empty)) =>
                  Rejected(nreq[n], nreq'[n])
        /\ \A w \in WorkflowRequests :
              (Begins(wreq[w], wreq'[w]) /\ wreq'[w].endpoint = "create"
                 /\ (\/ wreq'[w].body.user_id = 0 \/ wreq'[w].body.topic_id = 0
                     \/ wreq'[w].body.title = Empty)) =>
                  Rejected(wreq[w], wreq'[w])
        /\ \A q \in QuizRequests :
              (Begins(qreq[q], qreq'[q])
                 /\ (\/ qreq'[q].body.material_id = 0 \/ qreq'[q].body.page_number = 0
                     \/ qreq'[q].body.user_id = 0
                     \/ "selected_answer" \notin DOMAIN qreq'[q].body)) =>
                  Rejected(qreq[q], qreq'[q])
        /\ (served' = served + 1 /\ ereq'.endpoint = "estimate-nodes"
              /\ (ereq'.body.kind # "array" \/ ereq'.body.items = << >>)) =>
                  /\ epc' = "done"
                  /\ ereq'.status = 400
                  /\ ereq'.log = << >>
                  /\ UNCHANGED StoreVars
      ]_vars

\* a quiz submit without selected_answer and a node creation without title
\* were both rejected
C17_Witness ==
    /\ \E q \in QuizRequests :
          /\ qreq[q].pc = "done" /\ qreq[q].response.status = 400
          /\ "selected_answer" \notin DOMAIN qreq[q].body
    /\ \E n \in NodeRequests :
          /\ nreq[n].pc = "done" /\ nreq[n].response.status = 400
          /\ nreq[n].title = Empty /\ nreq[n].topic_id # 0

\* the calls the claim puts after the authorization check
GuardedCalls == {"edges", "llm", "calendar", "select"}

\* C18: an implement request, or a request for the caller's own workflows,
\* that carries no credential or a credential that is not a signed-in user's
\* is answered 401, and no workflow data is read, no estimate requested and no
\* calendar call made for it.
C18_UnauthorizedFirst ==
    /\ ("endpoint" \in DOMAIN ereq /\ ereq.endpoint = "implement"
          /\ ereq.credential \notin ValidCredentials) =>
            /\ Range(ereq.log) \cap GuardedCalls = {}
            /\ epc = "done" => ereq.status = 401
    /\ \A w \in WorkflowRequests :
          (wreq[w].endpoint = "mine" /\ wreq[w].userId = 0) =>
            /\ Range(wreq[w].log) \cap GuardedCalls = {}
            /\ wreq[w].pc = "done" => wreq[w].response.status = 401

\* the quiz of a submission, and the scores of a user who has a profile
QuizOf(body) ==
    CHOOSE row \in material_page_quizzes :
        row.material_id = body.material_id /\ row.page_number = body.page_number

ScoresOf(profiles, user_id) ==
    (CHOOSE row \in profiles : row.user_id = user_id).quiz_scores

HasProfile(profiles, user_id) == \E row \in profiles : row.user_id = user_id

KeysOf(profiles, user_id) == { entry.key : entry \in ScoresOf(profiles, user_id) }

Saved(q) == qreq[q].pc = "done" /\ qreq[q].response.status = 200

\* C29: a submission writes only its own key of the user's quiz_scores: the
\* update of a submission keeps every score the profile held under another
\* key, and once two submissions of one user for different pages have both
\* been answered with success, the profile holds a score under both keys.
C29_OtherPagesPreserved ==
    \A q, o \in QuizRequests :
        (/\ q # o /\ Saved(q) /\ Saved(o)
         /\ qreq[q].body.user_id = qreq[o].body.user_id
         /\ HasProfile(user_profiles, qreq[q].body.user_id)
         /\ qreq[q].body.page_number # qreq[o].body.page_number) =>
            { ScoreKey(qreq[q].body.material_id, qreq[q].body.page_number),
              ScoreKey(qreq[o].body.material_id, qreq[o].body.page_number) }
                \subseteq KeysOf(user_profiles, qreq[q].body.user_id)

\* the verdict is one the validator parsed from the LLM's answer
ParsedVerdict(v) == "reason" \in DOMAIN v => v.reason \notin FallbackReasons

\* the request that writes the volatile entry in this step
WritesEntry(r, key) ==
    /\ pc[r] = "afterUpsert" /\ pc'[r] = "done"
    /\ key = getCacheKey(req[r].sourceName, req[r].targetName)

\* C22: a volatile entry, and a durable record, is created only by a request
\* that missed both caches and called the LLM, and only from a verdict parsed
\* from the LLM's answer: never from the validator's fail-open default.
C22_OnlySuccessfulValidationStored ==
    [][ /\ \A key \in DOMAIN validationCache' :
              (IF key \in DOMAIN validationCache
               THEN validationCache'[key] # validationCache[key] ELSE TRUE) =>
                  \E r \in Requests :
                      /\ WritesEntry(r, key)
                      /\ "llmCall" \in Range(req[r].log)
                      /\ ParsedVerdict(req[r].validation)
        /\ \A row \in durable' \ durable :
              /\ row.validation_reason \notin FallbackReasons
              /\ \E r \in Requests :
                    pc[r] = "upsert" /\ "llmCall" \in Range(req[r].log)
      ]_vars

\* the request whose volatile read takes place in this step
ReadsKey(r, key) ==
    /\ pc[r] = "afterRead" /\ pc'[r] # "afterRead"
    /\ req[r].cachedValidation = NullData
    /\ key = getCacheKey(req[r].sourceName, req[r].targetName)

\* C23: an entry of the volatile cache leaves the Map only in a step that
\* reads its own key and finds it older than CACHE_TTL; it changes only in a
\* step that writes its own key, which sets its timestamp to the time of the
\* write. Every other step (the clock, reads and writes of other keys, hits
\* of the durable cache) leaves it as it is.
C23_NoActiveExpiry ==
    [][ \A key \in DOMAIN validationCache :
          IF key \notin DOMAIN validationCache'
          THEN \E r \in Requests :
                  /\ ReadsKey(r, key)
                  /\ now - validationCache[key].timestamp > CACHE_TTL
          ELSE validationCache'[key] # validationCache[key] =>
                  /\ \E r \in Requests : WritesEntry(r, key)
                  /\ validationCache'[key].timestamp = now
      ]_vars

\* an entry older than an hour is still in the Map after a request for
\* another pair has missed the cache and written its own entry
C23_Witness ==
    \E old, new \in DOMAIN validationCache :
        /\ old # new
        /\ now - validationCache[old].timestamp > CACHE_TTL
        /\ validationCache[new].timestamp = now

\* the object the estimator parsed from the answer
ParsedAnswer(outcome) == EstimateJsonParse(JsonMatch(outcome))

\* the entries the answer returned
ReturnedEntries(outcome) ==
    IF "nodes" \in DOMAIN ParsedAnswer(outcome) THEN ParsedAnswer(outcome).nodes ELSE << >>

\* the title of the entry contains the node's title or is contained in it,
\* case-insensitively
MatchesTextually(entry, id) ==
    /\ "title" \in DOMAIN entry
    /\ \/ Includes(ToLowerCase(entry.title), ToLowerCase(NodeTitle(id)))
       \/ Includes(ToLowerCase(NodeTitle(id)), ToLowerCase(entry.title))

\* the hours an entry yields, 5 when it yields none
HoursOrFive(entry) ==
    IF "hours" \in DOMAIN entry /\ entry.hours # 0 THEN entry.hours ELSE 5

\* the hours the matching order gives the node at index i
HoursByMatching(entries, id, i) ==
    IF \E j \in DOMAIN entries : MatchesTextually(entries[j], id)
    THEN LET first == CHOOSE j \in DOMAIN entries :
                          /\ MatchesTextually(entries[j], id)
                          /\ \A k \in 1..(j - 1) : ~MatchesTextually(entries[k], id)
         IN HoursOrFive(entries[first])
    ELSE IF i \in DOMAIN entries THEN HoursOrFive(entries[i])
    ELSE 5

\* C24: from an answer it could parse, estimateWorkflowTime gives every node the
\* hours of the first returned entry whose title contains, or is contained in,
\* the node's title case-insensitively; when no entry matches textually, the
\* hours of the entry at the node's index; and 5 hours when neither yields a
\* value.
C24_MatchingOrder ==
    (/\ estimator.pc = "returned"
     /\ ~NoParsableObject(estimator.outcome)) =>
        /\ Len(estimator.result.nodes) = Len(estimator.nodes)
        /\ \A i \in DOMAIN estimator.nodes :
              estimator.result.nodes[i].estimatedHours =
                  HoursByMatching(ReturnedEntries(estimator.outcome), estimator.nodes[i], i)

\* C25: estimateWorkflowTime returns exactly one estimate per requested node,
\* in input order, and every estimate has estimatedHours > 0, whatever the
\* completions call answered.
C25_PositiveHours ==
    estimator.pc = "returned" =>
        /\ Len(estimator.result.nodes) = Len(estimator.nodes)
        /\ \A i \in DOMAIN estimator.nodes :
              /\ estimator.result.nodes[i].nodeId = estimator.nodes[i]
              /\ estimator.result.nodes[i].estimatedHours > 0
\* ---------------------------------------------------------------------- C26
\* the edges an answered GET /workflows/:id returned
DetailAnswered == dreq.pc = "done" /\ dreq.response.status = 200 /\ dreq.edgesRead

ReturnedEdges == dreq.response.data.edges

\* indexes of the returned edges that are the stored edge
ReturnedAs(edge) ==
    { i \in DOMAIN ReturnedEdges :
        /\ ReturnedEdges[i].workflow_id = edge.workflow_id
        /\ ReturnedEdges[i].source_node_id = edge.source_node_id
        /\ ReturnedEdges[i].target_node_id = edge.target_node_id }

TitleOf(id) == (CHOOSE row \in learning_nodes : row.id = id).title

RecordsOf(edge) ==
    PairRows(durable, TitleOf(edge.source_node_id), TitleOf(edge.target_node_id))

\* the row of the edge with the nodes it refers to
StoredRow(edge) ==
    [ workflow_id |-> edge.workflow_id,
      source_node_id |-> edge.source_node_id,
      target_node_id |-> edge.target_node_id,
      validation_reason |-> edge.validation_reason,
      source_node |-> CHOOSE row \in learning_nodes : row.id = edge.source_node_id,
      target_node |-> CHOOSE row \in learning_nodes : row.id = edge.target_node_id ]

Carries(returned, edge, record) ==
    /\ DOMAIN returned = DOMAIN StoredRow(edge) \cup {"is_valid", "recommendation"}
    /\ returned.is_valid = record.is_valid
    /\ returned.validation_reason = record.validation_reason
    /\ returned.recommendation = record.recommendation
    /\ \A f \in DOMAIN StoredRow(edge) \ {"validation_reason"} :
          returned[f] = StoredRow(edge)[f]

C27_ScheduleTerminates == <>(schedule.pc = "returned")

\* the call the route makes with a negative dailyHours and a node that has
\* hours to schedule
C27_NegativeBudget ==
    /\ schedule.pc = "loop"
    /\ schedule.dailyHours < 0
    /\ \E i \in DOMAIN schedule.nodes : schedule.nodes[i].estimatedHours > 0
\* ---------------------------------------------------------------------- C28
OwnStar(star) ==
    \E row \in workflows : row.id = star.workflow_id /\ row.user_id = star.user_id

OwnerOf(id, user) == \E row \in workflows : row.id = id /\ row.user_id = user

StarDone(s) == sreq[s].pc = "done" /\ sreq[s].endpoint = "star"

Refused(s, error) ==
    /\ sreq[s].response.status = 400
    /\ sreq[s].response.error = error
    /\ ~sreq[s].inserted

\* C28: no workflow has a star from its own owner and no user has two stars
\* on one workflow; a star request by the owner is rejected with 'Cannot
\* star own workflow', a star request for a pair that has a star with
\* 'Already starred', and neither inserts a star.
C28_StarsWellFormed ==
    /\ \A star \in workflow_stars : ~OwnStar(star)
    /\ \A a, b \in workflow_stars :
          (a.workflow_id = b.workflow_id /\ a.user_id = b.user_id) => a = b
    /\ \A s \in StarRequests :
          StarDone(s) =>
             /\ OwnerOf(sreq[s].id, sreq[s].userId.uuid) =>
                   Refused(s, "Cannot star own workflow")
             /\ sreq[s].heldAtInsert => Refused(s, "Already starred")
\* ---------------------------------------------------------------------- C30
ConvertDone(c) == creq[c].pc = "done"

\* the workflows of a topic
WorkflowsOf(topicId) == { row \in workflows : row.topic_id = topicId }

ServedFromCache(c) ==
    /\ creq[c].response.status = 200
    /\ Flag(creq[c].response, "fromCache")
    /\ creq[c].response.data.id = creq[c].topic.converted_workflow_id
    /\ creq[c].created = {}
    /\ "llm" \notin Range(creq[c].log)

\* C30: a convert request that reads its topic as converted, the workflow of
\* converted_workflow_id being stored, returns that workflow flagged
\* fromCache, writes no node, workflow, edge or validation record and makes
\* no LLM call; and no topic has more than one converted workflow, whatever
\* the interleaving of the convert requests for it.
C30_ConversionIdempotent ==
    /\ \A c \in ConvertRequests :
          (ConvertDone(c) /\ creq[c].convertedAtRead) => ServedFromCache(c)
    /\ \A topicId \in TopicIds : Cardinality(WorkflowsOf(topicId)) <= 1

====
